---- MODULE Spec2Model ----
(***************************************************************************)
(* A model of the glib object runtime: reference-counted object handles,   *)
(* up/downcasts, weak references, the property get/set pipeline and the    *)
(* signal connect/emit protocol (src/src/object.rs, src/src/types.rs,      *)
(* src/src/subclass/object.rs).                                            *)
(*                                                                         *)
(* Spec       handles: Object::new, clone, drop and weak references, run   *)
(*            by several threads.                                          *)
(* SpecCast   handles of several wrapper types: upcast, downcast,          *)
(*            dynamic_cast, equality, order and hash.                      *)
(* SpecProps  set_property / get_property on one SimpleObject instance.    *)
(* SpecSig    connect / emit / block / unblock / disconnect on one         *)
(*            SimpleObject instance.                                       *)
(* SpecNotify set_property and the notifications it emits.                 *)
(* SpecOrder  the order of the handlers in one emission.                   *)
(* SpecStale  block / unblock / disconnect with ids that name no handler.  *)
(* SpecNested emissions from inside a property setter or class handler.    *)
(* SpecGet    get_property on readable and unreadable properties.          *)
(* SpecSend   SendWeakRef used on two threads.                             *)
(* SpecBind   a property binding with a transform function.                *)
(* SpecConstruct  construction of instances of host-defined subclasses.    *)
(* SpecInstall    install_properties and the property trampolines.         *)
(* SpecType   questions about types: is_a, equality, raw ids.              *)
(* SpecReg    first calls of AnyValue::static_type() on several threads.   *)
(* SpecClosure    the boxed closures of signal::connect and their release. *)
(* SpecArgs   the argument vector emit hands to the handlers.              *)
(* SpecBinding    a Binding and its getters.                               *)
(* SpecRace   SendWeakRef::clone among the drops of the strong handles.    *)
(* SpecFuture SourceFuture: poll, the dispatch of its source, drop.        *)
(***************************************************************************)
EXTENDS Integers, Sequences, FiniteSets, TLC

\* ------------------------------------------------------------------ bounds
MaxPtrs == 1
MaxHandles == 3
MaxCastPtrs == 2
MaxCastHandles == 2
MaxInsts == 2
MaxWeaks == 2
NumThreads == 2
MaxArgs == 1
MaxHandlerIds == 2
MaxBlocks == 2
MaxNotifyHandlers == 2
MaxActs == 2
MaxChain == 4
MaxLog == 6
MaxProps == 3
MaxCopies == 2
MaxBoxes == 3
MaxArity == 11
MaxOther == 2
MaxFutures == 2
MaxPolls == 2

Ptrs == 1..MaxPtrs
HandleIds == 1..MaxHandles
WeakIds == 1..MaxWeaks
Threads == 1..NumThreads
CastPtrs == 1..MaxCastPtrs
CastHandleIds == 1..MaxCastHandles
NULL == 0

\* ----------------------------------------------------------- type registry
\* The fundamental types the object layer meets, and the object types the
\* crate and its subclass tests register.
ValueTypes == {"Invalid", "Unit", "Bool", "I32", "String"}
ObjectTypes == {"Object", "InitiallyUnowned", "SimpleObject", "ChildObject"}
InterfaceTypes == {"DummyInterface"}
Types == ValueTypes \cup ObjectTypes \cup InterfaceTypes

\* g_type_parent: the registered parent, "Invalid" for a root.  An
\* interface type derives from the fundamental interface type;
\* DerivedObject is a type registered with ParentType = SimpleObject.
ParentOf(t) ==
    CASE t \in {"InitiallyUnowned", "SimpleObject", "ChildObject"} -> "Object"
      [] t = "DummyInterface" -> "BaseInterface"
      [] t = "DerivedObject" -> "SimpleObject"
      [] OTHER -> "Invalid"

\* The interfaces a type was registered with (type_init: add_interface).
InterfacesOf(t) ==
    IF t = "SimpleObject" THEN {"DummyInterface"} ELSE {}

RECURSIVE Lineage(_)
\* t and every ancestor of t.
Lineage(t) ==
    IF ParentOf(t) = "Invalid" THEN {t} ELSE {t} \cup Lineage(ParentOf(t))

\* The prerequisites an interface was registered with (type_init:
\* add_prerequisite); the foreign registry records the ancestors of a
\* prerequisite as prerequisites too.
PrerequisitesOf(t) ==
    IF t = "DummyInterface" THEN Lineage("Object") ELSE {}

\* G_TYPE_IS_INTERFACE: the fundamental type of t is the interface type.
NODE_IS_IFACE(t) == "BaseInterface" \in Lineage(t)

\* g_type_is_a: the same type; else an ancestor; else, for an instantiatable
\* type, an interface it or one of its ancestors implements; else, for an
\* interface, one of its prerequisites.
g_type_is_a(type, iface_type) ==
    \/ type = iface_type
    \/ iface_type \in Lineage(type)
    \/ /\ "Object" \in Lineage(type)
       /\ NODE_IS_IFACE(iface_type)
       /\ \E c \in Lineage(type) : iface_type \in InterfacesOf(c)
    \/ /\ NODE_IS_IFACE(type)
       /\ iface_type \in PrerequisitesOf(type)

is_a_Reversed(a, b) == g_type_is_a(b, a)

\* Type::is_a: what g_type_is_a(self, other) answers.
is_a(a, b) == g_type_is_a(a, b)

\* The declared IsA<T> relation between wrapper types: every wrapper is its
\* own, every object and interface wrapper IsA<Object>, and the @extends /
\* @implements lists.
StaticIsA(s, t) ==
    /\ s \in ObjectTypes \cup InterfaceTypes
    /\ \/ s = t
       \/ t = "Object"
       \/ t \in Lineage(s)
       \/ t \in InterfacesOf(s)

\* CanDowncast<Sub> for Super: Sub: IsA<Super>.
CanDowncast(super, sub) == StaticIsA(sub, super)

\* Types whose instances are created floating (GInitiallyUnowned).
CreatedFloating(t) == "InitiallyUnowned" \in Lineage(t)

VARIABLES
    \* --- foreign instances
    next_ptr,       \* next instance address g_object_newv hands out
    rtype,          \* ptr -> runtime type of the instance ("Invalid": none)
    ref_count,      \* ptr -> GObject.ref_count
    floating,       \* ptr -> the floating flag
    finalized,      \* ptr -> how many times the instance was destroyed
    \* --- host side, Spec
    made,           \* ptr -> handles ever made for it (new, clone, upgrade)
    dropped,        \* ptr -> handles of it dropped so far
    weaks,          \* weak id -> [used, ptr, target]: a GWeakRef slot
    pc,             \* thread -> "idle" | "upgrade"
    tmp,            \* thread -> what g_weak_ref_get returned to it
    last,           \* the last finished operation and its result
    \* --- host side, SpecCast
    handles,        \* handle id -> [ptr, stype, inst]; ptr = NULL: no handle
    next_inst,      \* the number the next created instance gets (its identity)
    \* --- one SimpleObject instance, SpecProps and SpecSig
    store,          \* the instance's private fields: name, construct_name, constructed
    lastset,        \* property -> the value of its last set_property that returned Ok
    hlist,          \* the instance's connected handlers, in connection order
    next_hid,       \* the id the next connected handler gets
    out,            \* the last operation on the instance and what it returned
    crashed,        \* a panic left a callback of the foreign runtime
    \* --- notification, SpecNotify
    nlist,          \* the instance's notify handlers, in connection order
    acts,           \* what each handler of "name-changed" does, in connection order
    trace,          \* the events of the last set_property, in order
    \* --- SendWeakRef, SpecSend
    sends,          \* weak id -> [is, some, id]: the slot is a SendWeakRef, its origin
    THREAD_ID,      \* thread -> its id, -1 before its first get_thread_id
    COUNTER,        \* the id the next thread gets
    sout,           \* the last operation on a SendWeakRef and how it ended
    \* --- a binding from X.a to Y.b, SpecBind
    bst,            \* the values of X.a and Y.b, the binding and its transform
    bout,           \* the last operation on X, Y or the binding
    \* --- construction of subclass instances, SpecConstruct
    insts,          \* the instances made, each with the events of its life
    \* --- Type values and the registry's relation, SpecType
    tout,           \* the last question asked about types and its answer
    \* --- registration of the boxed types of AnyValue, SpecReg
    registry,       \* the type names the foreign registry holds
    ONCE,           \* copy of the crate, host type -> state of its Once
    TYPE,           \* copy of the crate, host type -> the static TYPE
    rpc,            \* thread -> where it is inside static_type()
    rlog,           \* what happened: registrations tried, Types returned
    \* --- boxed closures handed to the foreign side, SpecClosure
    cbox,           \* the boxes made by connect, each with its handler's state
    cemit,          \* the emission under way on the instance, if any
    calive,         \* the instance is not destroyed yet
    \* --- the argument vector of an emission, SpecArgs
    aout,           \* the last emit: its arguments, what the handlers received
    \* --- a Binding and its getters, SpecBinding
    gbinding,       \* the foreign binding: source, target and their properties
    gout,           \* the last getter called on the Binding and its result
    \* --- a subclass's installed properties, SpecInstall
    klass,          \* the host array and the foreign table: property id -> name
    pout,           \* the last property access the foreign side dispatched
    \* --- a clone racing with the last drop, SpecRace
    owner,          \* ptr -> the thread its handles live on (0: none yet)
    rpos,           \* thread -> "idle" | "clone": inside WeakRef::clone
    rtmp,           \* thread -> the reference g_weak_ref_get gave the clone
    released,       \* ptr -> the thread that did the final release (0: alive)
    \* --- SourceFuture and the source it creates, SpecFuture
    futs,           \* future -> its fields, whether it was dropped, its polls so far
    sources,        \* future -> the foreign source and the channel its create_source made
    fout            \* the last operation on a future and what it returned

foreignVars == <<next_ptr, rtype, ref_count, floating, finalized>>
refVars == <<made, dropped, weaks, pc, tmp>>
castVars == <<handles, next_inst>>
objVars == <<store, lastset, hlist, next_hid, out, crashed>>
extVars == <<nlist, acts, trace>>
sendVars == <<sends, THREAD_ID, COUNTER, sout>>
bindVars == <<bst, bout>>
oldVars == <<foreignVars, refVars, last, castVars, objVars, extVars, sendVars,
             bindVars, insts>>
classVars == <<klass, pout>>
typeVars == <<tout>>
regVars == <<registry, ONCE, TYPE, rpc, rlog>>
closureVars == <<cbox, cemit, calive>>
argVars == <<aout>>
getterVars == <<gbinding, gout>>
raceVars == <<owner, rpos, rtmp, released>>
futureVars == <<futs, sources, fout>>
lateVars == <<classVars, typeVars, regVars, closureVars, argVars, getterVars,
              raceVars, futureVars>>
\* What the actions of each later specification leave alone.
classRest == <<oldVars, typeVars, regVars, closureVars, argVars, getterVars,
               raceVars, futureVars>>
typeRest == <<oldVars, classVars, regVars, closureVars, argVars, getterVars,
              raceVars, futureVars>>
regRest == <<oldVars, classVars, typeVars, closureVars, argVars, getterVars,
             raceVars, futureVars>>
closureRest == <<oldVars, classVars, typeVars, regVars, argVars, getterVars,
                 raceVars, futureVars>>
argRest == <<oldVars, classVars, typeVars, regVars, closureVars, getterVars,
             raceVars, futureVars>>
getterRest == <<oldVars, classVars, typeVars, regVars, closureVars, argVars,
                raceVars, futureVars>>
raceRest == <<oldVars, classVars, typeVars, regVars, closureVars, argVars,
              getterVars, futureVars>>
futureRest == <<oldVars, classVars, typeVars, regVars, closureVars, argVars,
                getterVars, raceVars>>
moreVars == <<sendVars, bindVars, insts, lateVars>>
vars == <<foreignVars, refVars, last, castVars, objVars, extVars, moreVars>>

NoHandle == [ptr |-> NULL, stype |-> "Invalid", inst |-> 0]
NoWeak == [used |-> FALSE, ptr |-> NULL, target |-> NULL]
NoTmp == [ptr |-> NULL, w |-> 0]
NoOp == [op |-> "none", ok |-> TRUE, ptr |-> NULL]

FreeWeaks == {w \in WeakIds : ~weaks[w].used}
\* The slot a new weak reference takes.
NewWeak == CHOOSE w \in FreeWeaks : \A v \in FreeWeaks : w <= v

\* Threads between the two steps of an upgrade that got a pointer: each
\* owns one reference it is about to wrap.
InFlight(p) == {t \in Threads : pc[t] = "upgrade" /\ tmp[t].ptr = p}
\* The strong handles of p that exist.
nhandles(p) == made[p] - dropped[p]
\* Every owner of a reference to p.
Holders(p) == nhandles(p) + Cardinality(InFlight(p))
\* The model makes at most MaxHandles handles per instance.
CanAddHandle(p) == made[p] + Cardinality(InFlight(p)) < MaxHandles
Allocated(p) == p < next_ptr

\* ------------------------------------------------------ foreign primitives
\* Each takes the instance state (rc: reference counts, fl: floating flags,
\* fin: destruction counts, wk: weak slots) and returns it after the call.
\* g_object_ref_sink: clears the floating flag if set, else increments.
g_object_ref_sink(rc, fl, p) ==
    IF fl[p]
    THEN [rc |-> rc, fl |-> [fl EXCEPT ![p] = FALSE]]
    ELSE [rc |-> [rc EXCEPT ![p] = @ + 1], fl |-> fl]

\* g_object_unref: atomic decrement; at zero the instance is destroyed and
\* every weak slot pointing at it is cleared.
g_object_unref(rc, fin, wk, p) ==
    IF rc[p] <= 1
    THEN [rc |-> [rc EXCEPT ![p] = 0],
          fin |-> [fin EXCEPT ![p] = IF @ < 2 THEN @ + 1 ELSE @],
          wk |-> [w \in DOMAIN wk |->
                    IF wk[w].ptr = p THEN [wk[w] EXCEPT !.ptr = NULL]
                    ELSE wk[w]]]
    ELSE [rc |-> [rc EXCEPT ![p] = @ - 1], fin |-> fin, wk |-> wk]

\* g_weak_ref_get: atomically, a new strong reference to the target if it is
\* still alive, NULL otherwise.
g_weak_ref_get(rc, wk, w) ==
    IF wk[w].ptr # NULL
    THEN [ptr |-> wk[w].ptr, rc |-> [rc EXCEPT ![wk[w].ptr] = @ + 1]]
    ELSE [ptr |-> NULL, rc |-> rc]

\* g_object_newv: a new instance with one reference, floating for the
\* initially-unowned types.
g_object_newv(rc, fl, p, ty) ==
    [rc |-> [rc EXCEPT ![p] = 1], fl |-> [fl EXCEPT ![p] = CreatedFloating(ty)]]

\* -------------------------------------------------------- handle plumbing
\* ObjectRef's `ref` function: what Clone and from_glib_none call.
ObjectRef_ref(rc, fl, p) == g_object_ref_sink(rc, fl, p)

\* ObjectRef's `unref` function: what Drop calls.
ObjectRef_unref(rc, fin, wk, p) == g_object_unref(rc, fin, wk, p)

\* from_glib_full: take over a reference the caller holds, no increment.
from_glib_full(rc, fl, p, t) ==
    [h |-> [ptr |-> p, stype |-> t, inst |-> 0], rc |-> rc, fl |-> fl]

\* from_glib_none: take a new reference (through `ref`).
from_glib_none(rc, fl, p, t) ==
    [h |-> [ptr |-> p, stype |-> t, inst |-> 0],
     rc |-> ObjectRef_ref(rc, fl, p).rc, fl |-> ObjectRef_ref(rc, fl, p).fl]

\* An Object::new that wraps every new instance with from_glib_none.
Object_new_wrap_AlwaysNone(rc, fl, p) == from_glib_none(rc, fl, p, "Object")

\* Object::new after g_object_newv returned p: a floating instance is
\* wrapped with from_glib_none, an owned one with from_glib_full.
Object_new_wrap(rc, fl, p) ==
    IF fl[p] THEN from_glib_none(rc, fl, p, "Object")
    ELSE from_glib_full(rc, fl, p, "Object")

\* A Clone that copies the pointer without taking a reference.
clone_NoRef(rc, fl, hrec) == [h |-> hrec, rc |-> rc, fl |-> fl]

\* Clone of a wrapper: `ref` on the pointer, a second handle of the same type.
clone(rc, fl, hrec) ==
    [h |-> hrec, rc |-> ObjectRef_ref(rc, fl, hrec.ptr).rc,
     fl |-> ObjectRef_ref(rc, fl, hrec.ptr).fl]

\* ObjectExt::is: the runtime type of the instance is_a T.
is(hrec, T) == is_a(rtype[hrec.ptr], T)

\* Cast::unsafe_cast: T::unsafe_from(self.into()), the ObjectRef is moved.
unsafe_cast(hrec, T) == [hrec EXCEPT !.stype = T]

\* Cast::upcast
upcast(hrec, T) == unsafe_cast(hrec, T)

\* A downcast that skips the runtime check.
downcast_Unchecked(hrec, T) == [ok |-> TRUE, h |-> unsafe_cast(hrec, T)]

\* Cast::downcast: Ok(cast) if the instance is a T, Err(self) otherwise.
downcast(hrec, T) ==
    IF is(hrec, T) THEN [ok |-> TRUE, h |-> unsafe_cast(hrec, T)]
    ELSE [ok |-> FALSE, h |-> hrec]

\* Cast::dynamic_cast
dynamic_cast(hrec, T) ==
    IF ~is(hrec, T) THEN [ok |-> FALSE, h |-> hrec]
    ELSE [ok |-> TRUE, h |-> unsafe_cast(hrec, T)]

\* An equality that also compares the static wrapper type.
eq_Typed(a, b) == a.ptr = b.ptr /\ a.stype = b.stype

\* PartialEq between wrappers of any two static types: pointer equality.
eq(a, b) == a.ptr = b.ptr

\* PartialOrd between wrappers: the order of the pointers.
partial_cmp(a, b) ==
    IF a.ptr < b.ptr THEN "Less" ELSE IF a.ptr = b.ptr THEN "Equal" ELSE "Greater"

\* derive(Hash): the ObjectRef (the pointer) and the PhantomData (nothing).
hash(a) == <<a.ptr>>

\* An upgrade that wraps the pointer as if it were borrowed, taking a
\* second reference.
upgrade_wrap_ExtraRef(rc, fl, p, T) == from_glib_none(rc, fl, p, T)

\* An upgrade that releases the reference g_weak_ref_get took (as
\* WeakRef::clone does) and still returns the handle.
upgrade_wrap_Unref(rc, fl, p, T) ==
    [h |-> [ptr |-> p, stype |-> T, inst |-> 0],
     rc |-> [rc EXCEPT ![p] = @ - 1], fl |-> fl]

\* WeakRef::upgrade after g_weak_ref_get returned p # NULL: the reference
\* g_weak_ref_get took is handed to the new handle (from_glib_full).
upgrade_wrap(rc, fl, p, T) == from_glib_full(rc, fl, p, T)

\* ------------------------------------------------- values and properties
\* A Value: its type tag, the runtime type of the object it holds ("None":
\* holds no object) and its payload.
Val(ty, obj, data) == [ty |-> ty, obj |-> obj, data |-> data]
\* Option::None where a value could be.
NoValue == Val("None", "None", "None")
\* ToValue for T: SetValue and for Option<T>: the value is made with
\* Value::from_type(T::static_type()) and the content is set into it, so
\* its tag is the static type of T whatever the instance in it is.
SetValue_to_value(static_type, obj, data) == Val(static_type, obj, data)
\* ToValue for Value: the Value itself (a clone), its type its tag.
to_value(v) == v
to_value_type(v) == v.ty
\* The type of what a value holds at run time: of the object in it if it
\* holds one, its tag otherwise.
runtime_type(v) == IF v.obj # "None" THEN v.obj ELSE v.ty

StringValues ==
    {SetValue_to_value("String", "None", d) : d \in {"None", "a", "b"}}
BoolValues == {SetValue_to_value("Bool", "None", d) : d \in {"false", "true"}}
I32Values == {SetValue_to_value("I32", "None", d) : d \in {"0", "2"}}
\* Object handles as values: an Object wrapper on a ChildObject or on a
\* SimpleObject instance, and a value of type ChildObject (as emit of
\* "create-child-object" returns it).
ObjectValues ==
    {SetValue_to_value("Object", "ChildObject", "obj"),
     SetValue_to_value("Object", "SimpleObject", "obj"),
     Val("ChildObject", "ChildObject", "obj")}
Values == StringValues \cup BoolValues \cup I32Values \cup ObjectValues

\* The messages of the errors of the property and signal operations.
PropertyNotFound == "property not found"
PropertyNotWritable == "property is not writable"
PropertyNotReadable == "property is not readable"
TypeMismatch == "property can't be set from the given type"
ValueOutOfRange ==
    "property can't be set from given value, it is invalid or out of range"
ReadFailed == "Failed to get property value"
SignalNotFound == "Signal not found"
ArgumentCountMismatch == "Incompatible number of arguments"
ArgumentTypeMismatch == "Incompatible argument types"

READWRITE == {"READABLE", "WRITABLE"}
\* The properties SimpleObject installs.
PROPERTIES ==
    {[name |-> "name", vtype |-> "String", flags |-> READWRITE],
     [name |-> "construct-name", vtype |-> "String",
      flags |-> READWRITE \cup {"CONSTRUCT_ONLY"}],
     [name |-> "constructed", vtype |-> "Bool", flags |-> {"READABLE"}],
     [name |-> "child", vtype |-> "ChildObject", flags |-> READWRITE]}
\* Properties of other classes: integers of the range 0..1, with and
\* without each of the flags set_property looks at.
OtherParamSpecs ==
    {[name |-> "level", vtype |-> "I32", flags |-> READWRITE],
     [name |-> "lax-level", vtype |-> "I32",
      flags |-> READWRITE \cup {"LAX_VALIDATION"}],
     [name |-> "read-level", vtype |-> "I32", flags |-> {"READABLE"}],
     [name |-> "construct-level", vtype |-> "I32",
      flags |-> READWRITE \cup {"CONSTRUCT_ONLY", "LAX_VALIDATION"}]}
AllParamSpecs == PROPERTIES \cup OtherParamSpecs
PropertyNames == {ps.name : ps \in PROPERTIES} \cup {"test"}

\* ObjectClass::find_property on the class of the SimpleObject instance.
find_property(name) ==
    IF \E ps \in PROPERTIES : ps.name = name
    THEN CHOOSE ps \in PROPERTIES : ps.name = name
    ELSE [name |-> "", vtype |-> "Invalid", flags |-> {}]
has_property(name) == \E ps \in PROPERTIES : ps.name = name

\* g_type_check_value_holds: the tag of the value is_a the type.
g_type_check_value_holds(v, type) == is_a(v.ty, type)

\* g_param_value_validate: an integer is clamped into the range, an object
\* that is not of the property's type is replaced by none.
g_param_value_validate(pspec, v) ==
    IF pspec.vtype = "I32" /\ v.data \notin {"0", "1"}
    THEN [changed |-> TRUE, value |-> [v EXCEPT !.data = "1"]]
    ELSE IF v.obj # "None" /\ ~is_a(v.obj, pspec.vtype)
    THEN [changed |-> TRUE, value |-> [v EXCEPT !.obj = "None"]]
    ELSE [changed |-> FALSE, value |-> v]

\* ObjectExt::set_property up to g_object_set_property: the error, or "Ok"
\* and the value handed to the property setter of the class.
set_property_checks(found, pspec, v) ==
    IF ~found THEN [res |-> PropertyNotFound, value |-> v]
    ELSE IF "WRITABLE" \notin pspec.flags \/ "CONSTRUCT_ONLY" \in pspec.flags
    THEN [res |-> PropertyNotWritable, value |-> v]
    ELSE IF ~g_type_check_value_holds(to_value(v), pspec.vtype)
    THEN [res |-> TypeMismatch, value |-> v]
    ELSE LET V == g_param_value_validate(pspec, to_value(v))
         IN  IF V.changed /\ "LAX_VALIDATION" \notin pspec.flags
             THEN [res |-> ValueOutOfRange, value |-> v]
             ELSE [res |-> "Ok", value |-> V.value]

\* ---------------------------------------------------------------- signals
\* The signals SimpleObject adds in class_init.
SIGNALS ==
    {[name |-> "name-changed", param_types |-> <<"String">>,
      return_type |-> "Unit", class_handler |-> FALSE,
      flags |-> {"RUN_LAST"}],
     [name |-> "change-name", param_types |-> <<"String">>,
      return_type |-> "String", class_handler |-> TRUE,
      flags |-> {"RUN_LAST", "ACTION"}],
     [name |-> "create-string", param_types |-> <<>>,
      return_type |-> "String", class_handler |-> FALSE,
      flags |-> {"RUN_LAST"}],
     [name |-> "create-child-object", param_types |-> <<>>,
      return_type |-> "ChildObject", class_handler |-> FALSE,
      flags |-> {"RUN_LAST"}]}
\* Signals of other classes, added with add_signal_with_class_handler and
\* another stage for the class handler.
OtherSignals ==
    {[name |-> "first", param_types |-> <<>>, return_type |-> "Unit",
      class_handler |-> TRUE, flags |-> {"RUN_FIRST"}],
     [name |-> "cleanup", param_types |-> <<>>, return_type |-> "Unit",
      class_handler |-> TRUE, flags |-> {"RUN_CLEANUP"}]}
AllSignals == SIGNALS \cup OtherSignals
SignalNames == {sig.name : sig \in SIGNALS} \cup {"no-such-signal"}

\* g_signal_parse_name and g_signal_query on the type of the instance.
g_signal_parse_name(signal_name) ==
    \E sig \in AllSignals : sig.name = signal_name
g_signal_query(signal_name) ==
    CHOOSE sig \in AllSignals : sig.name = signal_name

\* What a connected callback returns: None, a string, an Object handle on a
\* ChildObject instance, a value of type ChildObject.
Returns ==
    {NoValue, SetValue_to_value("String", "None", "a"),
     SetValue_to_value("Object", "ChildObject", "obj"),
     Val("ChildObject", "ChildObject", "obj")}
\* The callbacks connected to a signal: to one without a return value, one
\* that returns None and one that returns a value; to one that returns a
\* string, no callback that returns a value of type ChildObject.
CallbacksFor(signal_name) ==
    IF signal_name = "create-child-object" THEN Returns
    ELSE IF signal_name \in {"change-name", "create-string"}
    THEN Returns \ {Val("ChildObject", "ChildObject", "obj")}
    ELSE {NoValue, Val("String", "None", "a")}
\* The arguments of an emission.
ArgValues ==
    {Val("String", "None", "a"), Val("String", "None", "None"),
     Val("Bool", "None", "true")}
ArgSeqs == UNION {[1..n -> ArgValues] : n \in 0..MaxArgs}

NoHandlers == <<>>
HandlerIdsOf(hl) == {hl[i].id : i \in 1..Len(hl)}
Min(S) == CHOOSE x \in S : \A y \in S : x <= y

\* The closure connect wraps the callback in: the callback's return value
\* checked against the return type of the signal.
closure(return_type, ret) ==
    IF return_type = "Unit"
    THEN [panic |-> ret # NoValue, ret |-> NoValue]
    ELSE IF ret = NoValue THEN [panic |-> TRUE, ret |-> NoValue]
    ELSE IF ~g_type_check_value_holds(ret, return_type)
    THEN [panic |-> TRUE, ret |-> NoValue]
    ELSE [panic |-> FALSE, ret |-> ret]

\* The handlers an emission of sig runs in one stage: connected to sig with
\* this `after`, not blocked, in connection order.
Participants(hl, sig, aft) ==
    SelectSeq(hl, LAMBDA h : h.sig = sig /\ h.after = aft /\ h.blocked = 0)

\* One stage of an emission: the closures run in order up to the first that
\* panics; the return value is that of the last closure run.
run(H, return_type) ==
    LET bad == {i \in 1..Len(H) : closure(return_type, H[i].cb).panic}
        n == IF bad = {} THEN Len(H) ELSE Min(bad)
    IN  [panic |-> bad # {},
         invoked |-> [i \in 1..n |-> H[i].id],
         ret |-> IF bad = {} /\ n > 0
                 THEN closure(return_type, H[n].cb).ret ELSE NoValue]
NoRun == [panic |-> FALSE, invoked |-> <<>>, ret |-> NoValue]

\* An emit that does not look at the types of the arguments.
emit_checks_NoTypes(signal_name, args) ==
    IF ~g_signal_parse_name(signal_name) THEN SignalNotFound
    ELSE IF Len(g_signal_query(signal_name).param_types) # Len(args)
    THEN ArgumentCountMismatch
    ELSE "Ok"

\* ObjectExt::emit up to g_signal_emitv: the error, or "Ok".
emit_checks(signal_name, args) ==
    IF ~g_signal_parse_name(signal_name) THEN SignalNotFound
    ELSE LET details == g_signal_query(signal_name)
         IN  IF Len(details.param_types) # Len(args)
             THEN ArgumentCountMismatch
             ELSE IF \E i \in 1..Len(args) :
                        details.param_types[i] # to_value_type(args[i])
             THEN ArgumentTypeMismatch
             ELSE "Ok"

RECURSIVE emit(_, _, _, _)
\* A class handler of "change-name" that emits "name-changed" with the old
\* name.
change_name_class_handler_OldName(hl, st, args) ==
    IF args[1].data = "None"
    THEN [panic |-> TRUE, ret |-> NoValue, st |-> st, nested |-> <<>>,
          nested_args |-> <<>>]
    ELSE LET st2 == [st EXCEPT !.name = args[1].data]
             a == <<Val("String", "None", st.name)>>
             Result(E) ==
                [panic |-> E.res # "Ok",
                 ret |-> Val("String", "None", st.name),
                 st |-> st2, nested |-> E.invoked, nested_args |-> a]
         IN  Result(emit(hl, st2, "name-changed", a))

\* The class handler of "change-name": takes the old name, stores the new
\* one, emits "name-changed" with it and returns the old name.
change_name_class_handler(hl, st, args) ==
    IF args[1].data = "None"
    THEN [panic |-> TRUE, ret |-> NoValue, st |-> st, nested |-> <<>>,
     nested_args |-> <<>>]
    ELSE LET st2 == [st EXCEPT !.name = args[1].data]
             a == <<Val("String", "None", st2.name)>>
             Result(E) ==
                [panic |-> E.res # "Ok",
                 ret |-> Val("String", "None", st.name),
                 st |-> st2, nested |-> E.invoked, nested_args |-> a]
         IN  Result(emit(hl, st2, "name-changed", a))

\* The class handler of a signal: that of "change-name", or one that does
\* nothing and returns nothing.
class_handler(hl, st, signal_name, args) ==
    IF signal_name = "change-name"
    THEN change_name_class_handler(hl, st, args)
    ELSE [panic |-> FALSE, ret |-> NoValue, st |-> st, nested |-> <<>>,
     nested_args |-> <<>>]

\* An emission that runs the class handler first whatever the flags.
g_signal_emitv_ClassFirst(hl, st, details, args) ==
    LET Stages(C) ==
        LET
        B == IF C.panic THEN NoRun
             ELSE run(Participants(hl, details.name, FALSE),
                      details.return_type)
        A == IF C.panic \/ B.panic THEN NoRun
             ELSE run(Participants(hl, details.name, TRUE),
                      details.return_type)
    IN  [panic |-> C.panic \/ B.panic \/ A.panic,
         ret |-> IF A.ret # NoValue THEN A.ret
                 ELSE IF B.ret # NoValue THEN B.ret ELSE C.ret,
         invoked |-> B.invoked \o A.invoked, nested |-> C.nested,
         nested_args |-> C.nested_args,
         class |-> details.class_handler, st |-> C.st,
         order |-> (IF details.class_handler THEN <<0>> ELSE <<>>)
                   \o B.invoked \o A.invoked]
    IN  Stages(IF details.class_handler
               THEN class_handler(hl, st, details.name, args)
               ELSE [panic |-> FALSE, ret |-> NoValue, st |-> st,
                     nested |-> <<>>, nested_args |-> <<>>])

\* g_signal_emitv: the class handler if the signal is RUN_FIRST, the
\* handlers connected before, the class handler if RUN_LAST, the handlers
\* connected after, the class handler if RUN_CLEANUP; a panic ends it; the
\* value is that of the last handler that returned one. `order` lists the
\* handler ids as they ran, 0 for the class handler. A signal is registered
\* with one of the three stages, and connected handlers do not change the
\* instance, so the class handler starts from st in whichever stage it runs.
g_signal_emitv(hl, st, details, args) ==
    LET Skip == [panic |-> FALSE, ret |-> NoValue, st |-> st,
                 nested |-> <<>>, nested_args |-> <<>>]
        Stages(CH) ==
        LET
        first == details.class_handler /\ "RUN_FIRST" \in details.flags
        C1 == IF first THEN CH ELSE Skip
        B == IF C1.panic THEN NoRun
             ELSE run(Participants(hl, details.name, FALSE),
                      details.return_type)
        d2 == C1.panic \/ B.panic
        last2 == details.class_handler /\ "RUN_LAST" \in details.flags /\ ~d2
        C2 == IF last2 THEN CH ELSE Skip
        d3 == d2 \/ C2.panic
        A == IF d3 THEN NoRun
             ELSE run(Participants(hl, details.name, TRUE),
                      details.return_type)
        d4 == d3 \/ A.panic
        cleanup == details.class_handler /\ "RUN_CLEANUP" \in details.flags
                   /\ ~d4
        C3 == IF cleanup THEN CH ELSE Skip
    IN  [panic |-> d4 \/ C3.panic,
         ret |-> IF C3.ret # NoValue THEN C3.ret
                 ELSE IF A.ret # NoValue THEN A.ret
                 ELSE IF C2.ret # NoValue THEN C2.ret
                 ELSE IF B.ret # NoValue THEN B.ret
                 ELSE C1.ret,
         invoked |-> B.invoked \o A.invoked,
         nested |-> C1.nested \o C2.nested \o C3.nested,
         nested_args |-> C1.nested_args \o C2.nested_args
                         \o C3.nested_args,
         class |-> first \/ last2 \/ cleanup,
         st |-> IF first \/ last2 \/ cleanup THEN CH.st ELSE st,
         order |-> (IF first THEN <<0>> ELSE <<>>) \o B.invoked
                   \o (IF last2 THEN <<0>> ELSE <<>>) \o A.invoked
                   \o (IF cleanup THEN <<0>> ELSE <<>>)]
    IN  Stages(IF details.class_handler
               THEN class_handler(hl, st, details.name, args) ELSE Skip)

\* ObjectExt::emit: the checks, then g_signal_emitv into a return value
\* initialised with the return type; the result is Some(value) when the
\* value has a type.
emit(hl, st, signal_name, args) ==
    IF emit_checks(signal_name, args) # "Ok"
    THEN [res |-> emit_checks(signal_name, args), ret |-> NoValue,
          invoked |-> <<>>, nested |-> <<>>, class |-> FALSE, st |-> st,
          order |-> <<>>, nested_args |-> <<>>]
    ELSE
    LET details == g_signal_query(signal_name)
        Result(G) ==
            LET return_value ==
                    IF G.ret # NoValue THEN G.ret
                    ELSE IF details.return_type # "Unit"
                    THEN Val(details.return_type, "None", "None")
                    ELSE Val("Invalid", "None", "None")
            IN  [res |-> IF G.panic THEN "panic" ELSE "Ok",
                 ret |-> IF ~G.panic
                            /\ return_value.ty \notin {"Unit", "Invalid"}
                         THEN return_value ELSE NoValue,
                 invoked |-> G.invoked, nested |-> G.nested,
                 class |-> G.class, nested_args |-> G.nested_args,
                 st |-> G.st, order |-> G.order]
    IN  Result(g_signal_emitv(hl, st, details, args))

\* ------------------------------------------------ the SimpleObject instance
\* A property setter that stores nothing.
SimpleObject_set_property_NotStored(hl, st, name, value) ==
    [panic |-> FALSE, st |-> st, nested |-> <<>>,
     nested_args |-> <<>>]

\* ObjectImpl::set_property of SimpleObject: "name" is stored and
\* "name-changed" emitted, "construct-name" is stored, "child" is not
\* stored; any other property is unimplemented.
SimpleObject_set_property(hl, st, name, value) ==
    IF name = "name"
    THEN LET st2 == [st EXCEPT !.name = value.data]
             a == <<Val("String", "None", st2.name)>>
             Result(E) ==
                [panic |-> E.res # "Ok", st |-> st2, nested |-> E.invoked,
                 nested_args |-> a]
         IN  Result(emit(hl, st2, "name-changed", a))
    ELSE IF name = "construct-name"
    THEN [panic |-> FALSE, st |-> [st EXCEPT !.construct_name = value.data],
          nested |-> <<>>,
     nested_args |-> <<>>]
    ELSE IF name = "child"
    THEN [panic |-> FALSE, st |-> st, nested |-> <<>>,
     nested_args |-> <<>>]
    ELSE [panic |-> TRUE, st |-> st, nested |-> <<>>,
     nested_args |-> <<>>]

\* ObjectImpl::get_property of SimpleObject; any property but the three is
\* unimplemented.
SimpleObject_get_property(st, name) ==
    IF name = "name"
    THEN [panic |-> FALSE, value |-> Val("String", "None", st.name)]
    ELSE IF name = "construct-name"
    THEN [panic |-> FALSE, value |-> Val("String", "None", st.construct_name)]
    ELSE IF name = "constructed"
    THEN [panic |-> FALSE, value |-> Val("Bool", "None", st.constructed)]
    ELSE [panic |-> TRUE, value |-> NoValue]

\* A get_property that does not look at the flags.
get_property_of_NoFlags(found, pspec, G) ==
    IF ~found THEN [res |-> PropertyNotFound, value |-> NoValue]
    ELSE IF G.panic THEN [res |-> "panic", value |-> NoValue]
    ELSE IF G.value.ty = "Invalid"
    THEN [res |-> ReadFailed, value |-> NoValue]
    ELSE [res |-> "Ok", value |-> G.value]

\* ObjectExt::get_property on an instance whose class has the property
\* pspec, or none of that name, and whose getter leaves G: the error, or
\* the value the getter wrote over the freshly typed one.
get_property_of(found, pspec, G) ==
    IF ~found THEN [res |-> PropertyNotFound, value |-> NoValue]
    ELSE IF "READABLE" \notin pspec.flags
    THEN [res |-> PropertyNotReadable, value |-> NoValue]
    ELSE IF G.panic THEN [res |-> "panic", value |-> NoValue]
    ELSE IF G.value.ty = "Invalid"
    THEN [res |-> ReadFailed, value |-> NoValue]
    ELSE [res |-> "Ok", value |-> G.value]

\* ObjectExt::get_property on the SimpleObject instance.
get_property(st, name) ==
    get_property_of(has_property(name), find_property(name),
                    SimpleObject_get_property(st, name))

\* g_signal_handler_block / unblock / disconnect of the foreign runtime: a
\* handler is blocked as many times as it was blocked and not unblocked.
g_signal_handler_block(hl, id) ==
    [i \in 1..Len(hl) |->
        IF hl[i].id = id THEN [hl[i] EXCEPT !.blocked = @ + 1] ELSE hl[i]]
g_signal_handler_unblock(hl, id) ==
    [i \in 1..Len(hl) |->
        IF hl[i].id = id /\ hl[i].blocked > 0
        THEN [hl[i] EXCEPT !.blocked = @ - 1] ELSE hl[i]]
g_signal_handler_disconnect(hl, id) == SelectSeq(hl, LAMBDA h : h.id # id)
\* g_signal_connect_closure_by_id: the handler joins the list.
g_signal_connect_closure_by_id(hl, id, sig, closure_cb, after) ==
    Append(hl, [id |-> id, sig |-> sig, after |-> after, blocked |-> 0,
                cb |-> closure_cb])

\* An unblock_signal that blocks.
unblock_signal_Blocks(hl, id) == g_signal_handler_block(hl, id)

\* ObjectExt::block_signal, unblock_signal, disconnect.
block_signal(hl, id) == g_signal_handler_block(hl, id)
unblock_signal(hl, id) == g_signal_handler_unblock(hl, id)
\* A disconnect that removes the last handler when the id names none.
disconnect_OrLast(hl, id) ==
    IF id \in HandlerIdsOf(hl) \/ hl = <<>>
    THEN g_signal_handler_disconnect(hl, id)
    ELSE SubSeq(hl, 1, Len(hl) - 1)
disconnect(hl, id) == g_signal_handler_disconnect(hl, id)

NoOut == [op |-> "none", name |-> "", res |-> "Ok", value |-> NoValue,
          invoked |-> <<>>, nested |-> <<>>, class |-> FALSE, order |-> <<>>,
          args |-> <<>>, nested_args |-> <<>>]
\* The variables of the instance where there is none.
NoObject ==
    /\ store = <<>> /\ lastset = <<>> /\ hlist = <<>>
    /\ next_hid = 0 /\ out = NoOut /\ crashed = "no"
\* The variables of the other specifications where they are not used.
NoSend == sends = <<>> /\ THREAD_ID = <<>> /\ COUNTER = 0 /\ sout = <<>>
NoBind == bst = <<>> /\ bout = <<>>
NoCtor == insts = <<>>
NoClass == klass = <<>> /\ pout = <<>>
NoType == tout = <<>>
NoReg ==
    /\ registry = {} /\ ONCE = <<>> /\ TYPE = <<>> /\ rpc = <<>> /\ rlog = <<>>
NoClosure == cbox = <<>> /\ cemit = <<>> /\ calive = FALSE
NoArg == aout = <<>>
NoGetter == gbinding = <<>> /\ gout = <<>>
NoRace == owner = <<>> /\ rpos = <<>> /\ rtmp = <<>> /\ released = <<>>
NoFuture == futs = <<>> /\ sources = <<>> /\ fout = <<>>
\* The variables of the later specifications, those of group g left open.
LateIdle(g) ==
    /\ IF g = "class" THEN TRUE ELSE NoClass
    /\ IF g = "type" THEN TRUE ELSE NoType
    /\ IF g = "reg" THEN TRUE ELSE NoReg
    /\ IF g = "closure" THEN TRUE ELSE NoClosure
    /\ IF g = "arg" THEN TRUE ELSE NoArg
    /\ IF g = "getter" THEN TRUE ELSE NoGetter
    /\ IF g = "race" THEN TRUE ELSE NoRace
    /\ IF g = "future" THEN TRUE ELSE NoFuture
NoLate == LateIdle("none")
NoMore == NoSend /\ NoBind /\ NoCtor /\ NoLate
NoExt == nlist = <<>> /\ acts = <<>> /\ trace = <<>> /\ NoMore
\* Where a panic that unwinds into the foreign runtime ends.
PanicOutcomes == {"abort", "unwind"}

\* ---------------------------------------------------------------- Init
ForeignInit ==
    /\ next_ptr = 1
    /\ rtype = [p \in Ptrs |-> "Invalid"]
    /\ ref_count = [p \in Ptrs |-> 0]
    /\ floating = [p \in Ptrs |-> FALSE]
    /\ finalized = [p \in Ptrs |-> 0]

Init ==
    /\ ForeignInit
    /\ made = [p \in Ptrs |-> 0]
    /\ dropped = [p \in Ptrs |-> 0]
    /\ weaks = [w \in WeakIds |-> NoWeak]
    /\ pc = [t \in Threads |-> "idle"]
    /\ tmp = [t \in Threads |-> NoTmp]
    /\ last = NoOp
    /\ handles = <<>>
    /\ next_inst = 1
    /\ NoObject
    /\ NoExt

\* -------------------------------------------------------------- actions
\* The types Object::new is tried with: a non-object type, an owned object
\* type and an initially-unowned (floating) one.
NewTypes == {"String", "Object", "InitiallyUnowned"}

\* Object::new(type_, &[]); `null` is the foreign constructor's failure.
ObjectNew(ty, null) ==
    /\ next_ptr <= MaxPtrs
    /\ IF ~is_a(ty, "Object") \/ null
       THEN /\ last' = [NoOp EXCEPT !.op = "new", !.ok = FALSE]
            /\ UNCHANGED <<foreignVars, made>>
       ELSE LET p == next_ptr
                N == g_object_newv(ref_count, floating, p, ty)
                R == Object_new_wrap(N.rc, N.fl, p)
            IN  /\ next_ptr' = p + 1
                /\ rtype' = [rtype EXCEPT ![p] = ty]
                /\ ref_count' = R.rc
                /\ floating' = R.fl
                /\ finalized' = finalized
                /\ made' = [made EXCEPT ![p] = @ + 1]
                /\ last' = [NoOp EXCEPT !.op = "new", !.ptr = p]
    /\ UNCHANGED <<dropped, weaks, pc, tmp, castVars, objVars, extVars, moreVars>>

\* Clone for a wrapper, on one of the handles of p.
Clone(p) ==
    /\ nhandles(p) > 0
    /\ CanAddHandle(p)
    /\ LET R == clone(ref_count, floating, [ptr |-> p, stype |-> "Object", inst |-> 0])
       IN  /\ ref_count' = R.rc
           /\ floating' = R.fl
    /\ made' = [made EXCEPT ![p] = @ + 1]
    /\ last' = [NoOp EXCEPT !.op = "clone", !.ptr = p]
    /\ UNCHANGED <<next_ptr, rtype, finalized, dropped, weaks, pc, tmp,
                   castVars, objVars, extVars, moreVars>>

\* Drop for a wrapper: `unref` on the pointer.
Drop(p) ==
    /\ nhandles(p) > 0
    /\ LET R == ObjectRef_unref(ref_count, finalized, weaks, p)
       IN  /\ ref_count' = R.rc
           /\ finalized' = R.fin
           /\ weaks' = R.wk
    /\ dropped' = [dropped EXCEPT ![p] = @ + 1]
    /\ last' = [NoOp EXCEPT !.op = "drop", !.ptr = p]
    /\ UNCHANGED <<next_ptr, rtype, floating, made, pc, tmp, castVars, objVars, extVars, moreVars>>

\* obj.downgrade(): g_weak_ref_init on a fresh slot.
Downgrade(p) ==
    /\ nhandles(p) > 0
    /\ FreeWeaks # {}
    /\ weaks' = [weaks EXCEPT ![NewWeak] =
                    [used |-> TRUE, ptr |-> p, target |-> p]]
    /\ last' = [NoOp EXCEPT !.op = "downgrade", !.ptr = p]
    /\ UNCHANGED <<foreignVars, made, dropped, pc, tmp, castVars, objVars, extVars, moreVars>>

\* WeakRef::upgrade, first step, on thread t: g_weak_ref_get.
UpgradeGet(t, w) ==
    /\ pc[t] = "idle"
    /\ weaks[w].used
    /\ CanAddHandle(weaks[w].target)
    /\ LET R == g_weak_ref_get(ref_count, weaks, w)
       IN  /\ ref_count' = R.rc
           /\ tmp' = [tmp EXCEPT ![t] = [ptr |-> R.ptr, w |-> w]]
    /\ pc' = [pc EXCEPT ![t] = "upgrade"]
    /\ UNCHANGED <<next_ptr, rtype, floating, finalized, made, dropped,
                   weaks, last, castVars, objVars, extVars, moreVars>>

\* WeakRef::upgrade, second step: None for NULL, else wrap the pointer.
UpgradeWrap(t) ==
    /\ pc[t] = "upgrade"
    /\ IF tmp[t].ptr = NULL
       THEN /\ last' = [NoOp EXCEPT !.op = "upgrade", !.ok = FALSE,
                                    !.ptr = weaks[tmp[t].w].target]
            /\ UNCHANGED <<ref_count, floating, made>>
       ELSE LET R == upgrade_wrap(ref_count, floating, tmp[t].ptr, "Object")
            IN  /\ ref_count' = R.rc
                /\ floating' = R.fl
                /\ made' = [made EXCEPT ![R.h.ptr] = @ + 1]
                /\ last' = [NoOp EXCEPT !.op = "upgrade", !.ptr = R.h.ptr]
    /\ pc' = [pc EXCEPT ![t] = "idle"]
    /\ tmp' = [tmp EXCEPT ![t] = NoTmp]
    /\ UNCHANGED <<next_ptr, rtype, finalized, dropped, weaks, castVars, objVars, extVars, moreVars>>

\* Drop for WeakRef: g_weak_ref_clear. A slot an upgrade is reading is
\* borrowed by that upgrade and cannot be dropped meanwhile.
DropWeak(w) ==
    /\ weaks[w].used
    /\ \A t \in Threads : pc[t] = "upgrade" => tmp[t].w # w
    /\ weaks' = [weaks EXCEPT ![w] = NoWeak]
    /\ last' = [NoOp EXCEPT !.op = "drop_weak"]
    /\ UNCHANGED <<foreignVars, made, dropped, pc, tmp, castVars, objVars, extVars, moreVars>>

Next ==
    \/ \E ty \in NewTypes, null \in BOOLEAN : ObjectNew(ty, null)
    \/ \E p \in Ptrs : Clone(p)
    \/ \E p \in Ptrs : Drop(p)
    \/ \E p \in Ptrs : Downgrade(p)
    \/ \E t \in Threads, w \in WeakIds : UpgradeGet(t, w)
    \/ \E t \in Threads : UpgradeWrap(t)
    \/ \E w \in WeakIds : DropWeak(w)

Spec == Init /\ [][Next]_vars

\* ------------------------------------------------------------ SpecCast
\* Handles with their static wrapper types, on instances whose addresses
\* the allocator may hand out again once an instance is destroyed.
\* The instantiable types of the casts, and the wrapper types cast to.
CastNewTypes == {"Object", "SimpleObject", "ChildObject"}
WrapperTypes == CastNewTypes \cup InterfaceTypes

Live(h) == handles[h].ptr # NULL
LiveHandles == {h \in CastHandleIds : Live(h)}
FreeHandles == CastHandleIds \ LiveHandles
\* The slot a new handle takes.
NewHandle == CHOOSE h \in FreeHandles : \A g \in FreeHandles : h <= g

InitCast ==
    /\ next_ptr = 1
    /\ rtype = [p \in CastPtrs |-> "Invalid"]
    /\ ref_count = [p \in CastPtrs |-> 0]
    /\ floating = [p \in CastPtrs |-> FALSE]
    /\ finalized = [p \in CastPtrs |-> 0]
    /\ made = <<>> /\ dropped = <<>> /\ weaks = <<>> /\ pc = <<>> /\ tmp = <<>>
    /\ last = NoOp
    /\ handles = [h \in CastHandleIds |-> NoHandle]
    /\ next_inst = 1
    /\ NoObject
    /\ NoExt

\* Object::new(ty, &[]) succeeding, the instance placed at the free address p.
CastNew(ty, p) ==
    /\ next_inst <= MaxInsts
    /\ FreeHandles # {}
    /\ is_a(ty, "Object")
    /\ ref_count[p] = 0
    /\ LET N == g_object_newv(ref_count, floating, p, ty)
           R == Object_new_wrap(N.rc, N.fl, p)
       IN  /\ ref_count' = R.rc
           /\ floating' = R.fl
           /\ handles' = [handles EXCEPT
                            ![NewHandle] = [R.h EXCEPT !.inst = next_inst]]
    /\ rtype' = [rtype EXCEPT ![p] = ty]
    /\ next_inst' = next_inst + 1
    /\ last' = [op |-> "new", ok |-> TRUE, ptr |-> p]
    /\ UNCHANGED <<next_ptr, finalized, refVars, objVars, extVars, moreVars>>

\* h.clone()
CastClone(h) ==
    /\ Live(h)
    /\ FreeHandles # {}
    /\ LET R == clone(ref_count, floating, handles[h])
       IN  /\ ref_count' = R.rc
           /\ floating' = R.fl
           /\ handles' = [handles EXCEPT ![NewHandle] = R.h]
    /\ last' = [op |-> "clone", ok |-> TRUE, ptr |-> handles[h].ptr]
    /\ UNCHANGED <<next_ptr, rtype, finalized, refVars, objVars, extVars, moreVars, next_inst>>

\* drop(h)
CastDrop(h) ==
    /\ Live(h)
    /\ LET R == ObjectRef_unref(ref_count, finalized, <<>>, handles[h].ptr)
       IN  /\ ref_count' = R.rc
           /\ finalized' = R.fin
    /\ handles' = [handles EXCEPT ![h] = NoHandle]
    /\ last' = [op |-> "drop", ok |-> TRUE, ptr |-> handles[h].ptr]
    /\ UNCHANGED <<next_ptr, rtype, floating, refVars, objVars, extVars, moreVars, next_inst>>

\* h.upcast::<T>(), which compiles for the declared IsA<T> only.
Upcast(h, T) ==
    /\ Live(h)
    /\ StaticIsA(handles[h].stype, T)
    /\ handles' = [handles EXCEPT ![h] = upcast(handles[h], T)]
    /\ last' = [op |-> "upcast", ok |-> TRUE, ptr |-> handles[h].ptr]
    /\ UNCHANGED <<foreignVars, refVars, objVars, extVars, moreVars, next_inst>>

\* h.downcast::<T>(), which compiles for CanDowncast<T> only.
Downcast(h, T) ==
    /\ Live(h)
    /\ CanDowncast(handles[h].stype, T)
    /\ LET R == downcast(handles[h], T)
       IN  /\ handles' = [handles EXCEPT ![h] = R.h]
           /\ last' = [op |-> "downcast", ok |-> R.ok, ptr |-> handles[h].ptr]
    /\ UNCHANGED <<foreignVars, refVars, objVars, extVars, moreVars, next_inst>>

\* h.dynamic_cast::<T>()
DynamicCast(h, T) ==
    /\ Live(h)
    /\ LET R == dynamic_cast(handles[h], T)
       IN  /\ handles' = [handles EXCEPT ![h] = R.h]
           /\ last' = [op |-> "dynamic_cast", ok |-> R.ok,
                       ptr |-> handles[h].ptr]
    /\ UNCHANGED <<foreignVars, refVars, objVars, extVars, moreVars, next_inst>>

NextCast ==
    \/ \E ty \in CastNewTypes, p \in CastPtrs : CastNew(ty, p)
    \/ \E h \in CastHandleIds : CastClone(h)
    \/ \E h \in CastHandleIds : CastDrop(h)
    \/ \E h \in CastHandleIds, T \in WrapperTypes : Upcast(h, T)
    \/ \E h \in CastHandleIds, T \in WrapperTypes : Downcast(h, T)
    \/ \E h \in CastHandleIds, T \in WrapperTypes : DynamicCast(h, T)

SpecCast == InitCast /\ [][NextCast]_vars

\* --------------------------------------------------- SpecProps, SpecSig
\* Object::new(SimpleObject::get_type(), &[("construct-name", &"meh"),
\* ("name", &"a")]): the instance as constructed.
InitObj ==
    /\ ForeignInit
    /\ made = <<>> /\ dropped = <<>> /\ weaks = <<>> /\ pc = <<>> /\ tmp = <<>>
    /\ last = NoOp
    /\ handles = <<>>
    /\ next_inst = 1
    /\ store = [name |-> "a", construct_name |-> "meh", constructed |-> "true"]
    /\ lastset = [p \in {"name", "child"} |-> NoValue]
    /\ hlist = NoHandlers
    /\ next_hid = 1
    /\ out = NoOut
    /\ crashed = "no"
    /\ NoExt

otherVars == <<foreignVars, refVars, last, castVars, extVars, moreVars>>

\* obj.set_property(name, &v)
SetProperty(name, v) ==
    /\ crashed = "no"
    /\ \E C \in {set_property_checks(has_property(name),
                                      find_property(name), v)} :
       \E S \in {SimpleObject_set_property(hlist, store, name, C.value)} :
       LET O == [NoOut EXCEPT !.op = "set_property", !.name = name,
                              !.value = v]
       IN  IF C.res # "Ok"
           THEN /\ out' = [O EXCEPT !.res = C.res]
                /\ UNCHANGED <<store, lastset, crashed>>
           ELSE /\ store' = S.st
                /\ IF S.panic
                   THEN /\ crashed' \in PanicOutcomes
                        /\ out' = [O EXCEPT !.res = "panic",
                                            !.nested = S.nested,
                                            !.nested_args = S.nested_args]
                        /\ UNCHANGED lastset
                   ELSE /\ out' = [O EXCEPT !.nested = S.nested,
                                            !.nested_args = S.nested_args]
                        /\ lastset' = IF name \in DOMAIN lastset
                                      THEN [lastset EXCEPT ![name] = v]
                                      ELSE lastset
                        /\ UNCHANGED crashed
    /\ UNCHANGED <<hlist, next_hid, otherVars>>

\* set_property(pspec.name, &v) on an instance of a class that installed
\* pspec; what the class stores is not followed.
SetOtherProperty(pspec, v) ==
    /\ crashed = "no"
    /\ LET C == set_property_checks(TRUE, pspec, v)
       IN  out' = [NoOut EXCEPT !.op = "set_property", !.name = pspec.name,
                                !.res = C.res, !.value = v]
    /\ UNCHANGED <<store, lastset, hlist, next_hid, crashed, otherVars>>

\* obj.get_property(name)
GetProperty(name) ==
    /\ crashed = "no"
    /\ LET G == get_property(store, name)
       IN  /\ out' = [NoOut EXCEPT !.op = "get_property", !.name = name,
                                   !.res = G.res, !.value = G.value]
           /\ IF G.res = "panic" THEN crashed' \in PanicOutcomes
              ELSE UNCHANGED crashed
    /\ UNCHANGED <<store, lastset, hlist, next_hid, otherVars>>

\* obj.emit(signal_name, args)
Emit(signal_name, args) ==
    /\ crashed = "no"
    /\ \E E \in {emit(hlist, store, signal_name, args)} :
           /\ store' = E.st
           /\ out' = [NoOut EXCEPT !.op = "emit", !.name = signal_name,
                                   !.res = E.res, !.value = E.ret,
                                   !.invoked = E.invoked,
                                   !.nested = E.nested, !.class = E.class,
                                   !.args = args,
                                   !.nested_args = E.nested_args,
                                   !.order = E.order]
           /\ IF E.res = "panic" THEN crashed' \in PanicOutcomes
              ELSE UNCHANGED crashed
    /\ UNCHANGED <<lastset, hlist, next_hid, otherVars>>

\* obj.connect(signal_name, after, callback), the callback returning cb.
Connect(signal_name, after, cb) ==
    /\ crashed = "no"
    /\ IF ~g_signal_parse_name(signal_name)
       THEN /\ out' = [NoOut EXCEPT !.op = "connect", !.name = signal_name,
                                    !.res = SignalNotFound]
            /\ UNCHANGED <<hlist, next_hid>>
       ELSE /\ next_hid <= MaxHandlerIds
            /\ hlist' = g_signal_connect_closure_by_id(hlist, next_hid,
                                                       signal_name, cb, after)
            /\ next_hid' = next_hid + 1
            /\ out' = [NoOut EXCEPT !.op = "connect", !.name = signal_name]
    /\ UNCHANGED <<store, lastset, crashed, otherVars>>

\* obj.block_signal(&id)
Block(id) ==
    /\ crashed = "no"
    /\ \E i \in 1..Len(hlist) : hlist[i].id = id /\ hlist[i].blocked < MaxBlocks
    /\ hlist' = block_signal(hlist, id)
    /\ out' = [NoOut EXCEPT !.op = "block"]
    /\ UNCHANGED <<store, lastset, next_hid, crashed, otherVars>>

\* obj.unblock_signal(&id)
Unblock(id) ==
    /\ crashed = "no"
    /\ id \in HandlerIdsOf(hlist)
    /\ hlist' = unblock_signal(hlist, id)
    /\ out' = [NoOut EXCEPT !.op = "unblock"]
    /\ UNCHANGED <<store, lastset, next_hid, crashed, otherVars>>

\* obj.disconnect(id)
Disconnect(id) ==
    /\ crashed = "no"
    /\ id \in HandlerIdsOf(hlist)
    /\ hlist' = disconnect(hlist, id)
    /\ out' = [NoOut EXCEPT !.op = "disconnect"]
    /\ UNCHANGED <<store, lastset, next_hid, crashed, otherVars>>

NextProps ==
    \/ \E name \in PropertyNames, v \in Values : SetProperty(name, v)
    \/ \E pspec \in OtherParamSpecs, v \in Values : SetOtherProperty(pspec, v)
    \/ \E name \in PropertyNames : GetProperty(name)
    \/ \E signal_name \in SignalNames, args \in ArgSeqs : Emit(signal_name, args)

SpecProps == InitObj /\ [][NextProps]_vars

HandlerIds == 1..MaxHandlerIds
NextSig ==
    \/ \E signal_name \in SignalNames, after \in BOOLEAN :
        \E cb \in CallbacksFor(signal_name) : Connect(signal_name, after, cb)
    \/ \E signal_name \in SignalNames, args \in ArgSeqs : Emit(signal_name, args)
    \/ \E id \in HandlerIds : Block(id)
    \/ \E id \in HandlerIds : Unblock(id)
    \/ \E id \in HandlerIds : Disconnect(id)

SpecSig == InitObj /\ [][NextSig]_vars

\* ------------------------------------------------------- claims on Spec
\* C1: an instance is destroyed exactly once, and exactly when the last
\* handle to it is gone: with n handles made besides the first and n+1
\* dropped it is destroyed, with fewer dropped it is not, and its reference
\* count always equals the number of owners.
C1_DestroyedExactlyOnce ==
    \A p \in Ptrs : Allocated(p) =>
        /\ finalized[p] <= 1
        /\ (finalized[p] = 1) <=> (dropped[p] = made[p] /\ InFlight(p) = {})
        /\ ref_count[p] = Holders(p)

\* An instance whose handle was cloned up to the bound and all handles dropped.
C1_Witness ==
    \E p \in Ptrs :
        /\ made[p] = MaxHandles /\ dropped[p] = made[p]
        /\ finalized[p] = 1
        /\ last.op = "drop" /\ last.ptr = p

\* C9: a weak reference does not keep the instance alive (when the last
\* owner goes the instance is destroyed and the slot cleared); g_weak_ref_get
\* in upgrade returns the target and adds exactly one reference while a
\* strong handle exists, and NULL without touching the count once the
\* instance is destroyed; wrapping adds one handle and no reference; a drop
\* releases exactly one reference.
C9_Step ==
    /\ \A p \in Ptrs :
        (Holders(p) > 0 /\ Holders(p)' = 0) =>
            /\ finalized'[p] = 1
            /\ \A w \in WeakIds : weaks'[w].ptr # p
    /\ \A t \in Threads :
        (pc[t] = "idle" /\ pc'[t] = "upgrade") =>
            LET p == weaks[tmp'[t].w].target
            IN  /\ nhandles(p) > 0 =>
                    /\ tmp'[t].ptr = p
                    /\ ref_count' = [ref_count EXCEPT ![p] = @ + 1]
                /\ finalized[p] > 0 =>
                    /\ tmp'[t].ptr = NULL
                    /\ ref_count' = ref_count
    /\ \A t \in Threads :
        (pc[t] = "upgrade" /\ pc'[t] = "idle") =>
            /\ ref_count' = ref_count
            /\ tmp[t].ptr # NULL =>
                /\ last'.ok /\ last'.ptr = weaks[tmp[t].w].target
                /\ made' = [made EXCEPT ![tmp[t].ptr] = @ + 1]
            /\ tmp[t].ptr = NULL => ~last'.ok /\ made' = made
    /\ \A p \in Ptrs :
        dropped'[p] = dropped[p] + 1 =>
            ref_count' = [ref_count EXCEPT ![p] = @ - 1]

C9_WeakUpgrade == [][C9_Step]_vars

\* An upgrade that returned a handle while the original handle exists.
C9_Witness ==
    /\ last.op = "upgrade" /\ last.ok
    /\ nhandles(last.ptr) >= 2
    /\ \E w \in WeakIds : weaks[w].used /\ weaks[w].ptr = last.ptr

\* C10: whatever the interleaving of upgrade with drops, a pointer an
\* upgrade got is to a live instance that stays alive until it is wrapped
\* and the handle dropped; no handle ever refers to a destroyed instance;
\* upgrade ends with a handle to a live instance or with None for a
\* destroyed one.
C10_UpgradeRace ==
    /\ \A t \in Threads :
        (pc[t] = "upgrade" /\ tmp[t].ptr # NULL) =>
            /\ finalized[tmp[t].ptr] = 0
            /\ ref_count[tmp[t].ptr] >= 1
    /\ \A p \in Ptrs : nhandles(p) > 0 => finalized[p] = 0 /\ ref_count[p] >= 1
    /\ (last.op = "upgrade" /\ last.ok) =>
            finalized[last.ptr] = 0 /\ nhandles(last.ptr) >= 1
    /\ (last.op = "upgrade" /\ ~last.ok) => finalized[last.ptr] = 1

\* The last strong handle was dropped between the two steps of an upgrade:
\* the pointer the upgrade holds keeps the instance alive.
C10_Witness ==
    \E t \in Threads :
        /\ pc[t] = "upgrade" /\ tmp[t].ptr # NULL
        /\ nhandles(tmp[t].ptr) = 0
        /\ dropped[tmp[t].ptr] >= 1
        /\ finalized[tmp[t].ptr] = 0

\* --------------------------------------------------- claims on SpecCast
CastOps == {"upcast", "downcast", "dynamic_cast"}

\* Every handle's static type is a type of its instance; a handle upcast to
\* any declared supertype and cast back is the same handle again; a cast to
\* a type the instance is not fails and gives the handle back as it was.
C7_RoundTrip ==
    \A h \in LiveHandles :
        LET hr == handles[h]
        IN  /\ is_a(rtype[hr.ptr], hr.stype)
            /\ \A U \in WrapperTypes :
                StaticIsA(hr.stype, U) =>
                    /\ downcast(upcast(hr, U), hr.stype) = [ok |-> TRUE, h |-> hr]
                    /\ dynamic_cast(upcast(hr, U), hr.stype)
                           = [ok |-> TRUE, h |-> hr]
            /\ \A V \in WrapperTypes :
                ~is_a(rtype[hr.ptr], V) =>
                    /\ dynamic_cast(hr, V) = [ok |-> FALSE, h |-> hr]
                    /\ CanDowncast(hr.stype, V) =>
                           downcast(hr, V) = [ok |-> FALSE, h |-> hr]

\* A cast changes no reference count, destroys nothing, keeps every handle
\* on its instance, and when it fails leaves all handles as they were.
C7_Step ==
    last'.op \in CastOps =>
        /\ ref_count' = ref_count
        /\ finalized' = finalized
        /\ \A h \in CastHandleIds :
            /\ handles'[h].ptr = handles[h].ptr
            /\ handles'[h].inst = handles[h].inst
        /\ ~last'.ok => handles' = handles

\* C7: upcast then downcast or dynamic_cast back succeeds with the same
\* pointer; a downcast or dynamic_cast to a type the instance is not returns
\* the error with the original handle; no cast changes the reference count.
C7_Casts == []C7_RoundTrip /\ [][C7_Step]_vars

\* A handle downcast from the interface wrapper to SimpleObject while a
\* second handle shares the instance.
C7_Witness ==
    /\ last.op = "downcast" /\ last.ok
    /\ ref_count[last.ptr] = 2
    /\ \E h \in LiveHandles :
        handles[h].ptr = last.ptr /\ handles[h].stype = "SimpleObject"

\* Two handles are equal, compare Equal and hash equally exactly when they
\* are handles of the same instance, whatever their static types.
C8_SameInstance ==
    \A a, b \in LiveHandles :
        LET same == handles[a].inst = handles[b].inst
        IN  /\ eq(handles[a], handles[b]) <=> same
            /\ (partial_cmp(handles[a], handles[b]) = "Equal") <=> same
            /\ (hash(handles[a]) = hash(handles[b])) <=> same
            /\ (partial_cmp(handles[a], handles[b]) = "Less")
                   <=> (partial_cmp(handles[b], handles[a]) = "Greater")

\* No operation changes the hash of a handle that stays, nor the equality
\* or the order of two handles that stay; a clone is equal to its source.
C8_Step ==
    /\ \A a, b \in LiveHandles \cap LiveHandles' :
        /\ hash(handles'[a]) = hash(handles[a])
        /\ eq(handles'[a], handles'[b]) <=> eq(handles[a], handles[b])
        /\ partial_cmp(handles'[a], handles'[b])
               = partial_cmp(handles[a], handles[b])
    /\ last'.op = "clone" =>
        \E n \in LiveHandles' \ LiveHandles, src \in LiveHandles :
            /\ eq(handles'[n], handles[src])
            /\ hash(handles'[n]) = hash(handles[src])
            /\ partial_cmp(handles'[n], handles[src]) = "Equal"

\* C8: a == b exactly when both wrap the same instance pointer, for any two
\* static wrapper types; order and hash depend on the pointer only; cloning
\* and casting change none of them.
C8_Equality == []C8_SameInstance /\ [][C8_Step]_vars

\* Two handles of different static types on one instance, which lives at an
\* address an earlier instance was destroyed at.
C8_Witness ==
    \E a, b \in LiveHandles :
        /\ a # b
        /\ handles[a].inst = handles[b].inst
        /\ handles[a].stype # handles[b].stype
        /\ finalized[handles[a].ptr] >= 1

\* -------------------------------------------------- claims on SpecProps
\* What the claim has set_property answer for a property and a value.
C2_Claimed(found, pspec, v) ==
    IF ~found THEN PropertyNotFound
    ELSE IF "WRITABLE" \notin pspec.flags \/ "CONSTRUCT_ONLY" \in pspec.flags
    THEN PropertyNotWritable
    ELSE IF ~is_a(runtime_type(v), pspec.vtype) THEN TypeMismatch
    ELSE IF /\ g_param_value_validate(pspec, v).changed
            /\ "LAX_VALIDATION" \notin pspec.flags
    THEN ValueOutOfRange
    ELSE "Ok"

\* C2: set_property answers with the first failing check, in the order:
\* no such property, not writable or construct-only, the runtime type of
\* the value neither the declared type nor a subtype of it, validation
\* changed the value without lax validation; otherwise it commits the value
\* and returns Ok.
C2_CheckOrder ==
    (out.op = "set_property" /\ out.res # "panic") =>
        /\ out.res = C2_Claimed(\E ps \in AllParamSpecs : ps.name = out.name,
                                IF \E ps \in AllParamSpecs : ps.name = out.name
                                THEN CHOOSE ps \in AllParamSpecs :
                                         ps.name = out.name
                                ELSE find_property(out.name),
                                out.value)
        /\ (out.res = "Ok" /\ out.name = "name") =>
               store.name = out.value.data

\* C3 as stated: every readable and writable property that is not
\* construct-only reads back the value of its last set_property that
\* returned Ok.
C3_Original ==
    \A p \in DOMAIN lastset :
        lastset[p] # NoValue =>
            get_property(store, p) = [res |-> "Ok", value |-> lastset[p]]

\* Right after set_property("name", v) returned Ok, get_property("name")
\* returns Ok(v).
C3_ReadsBack ==
    (out.op = "set_property" /\ out.name = "name" /\ out.res = "Ok") =>
        get_property(store, "name") = [res |-> "Ok", value |-> out.value]

\* What get_property("name") returns changes only in a set_property("name")
\* that passed its checks or in an emission of "change-name" that ran the
\* class handler.
C3_Step ==
    get_property(store', "name") # get_property(store, "name") =>
        \/ /\ out'.op = "set_property" /\ out'.name = "name"
           /\ out'.res \in {"Ok", "panic"}
        \/ out'.op = "emit" /\ out'.name = "change-name" /\ out'.class

\* C3, amended: for the string property "name", after set_property returned
\* Ok get_property returns Ok of that value, until the name is next changed
\* by a set_property that passes its checks or by the class handler of
\* "change-name".
C3_NameRoundTrip == []C3_ReadsBack /\ [][C3_Step]_vars

\* get_property("name") returned the value "b" that set_property stored.
C3_Witness ==
    /\ out.op = "get_property" /\ out.name = "name" /\ out.res = "Ok"
    /\ lastset["name"] = Val("String", "None", "b")
    /\ out.value = lastset["name"]

\* ---------------------------------------------------- claims on SpecSig
Count(seq, x) == Cardinality({i \in DOMAIN seq : seq[i] = x})
Blocked(hl, id) == \E i \in 1..Len(hl) : hl[i].id = id /\ hl[i].blocked > 0
BlockCount(hl, id) == (CHOOSE h \in {hl[i] : i \in 1..Len(hl)} : h.id = id).blocked
\* hl without the handler id, and without looking at the block counts.
Others(hl, id) ==
    [i \in 1..Len(SelectSeq(hl, LAMBDA h : h.id # id)) |->
        [SelectSeq(hl, LAMBDA h : h.id # id)[i] EXCEPT !.blocked = 0]]
Unblocked(hl) == [i \in 1..Len(hl) |-> [hl[i] EXCEPT !.blocked = 0]]

\* Every emission that returns has run each handler that is connected to
\* the signal and not blocked exactly once and no other handler: not a
\* blocked one, not a disconnected one, not one of another signal; the
\* emission of "name-changed" inside the class handler of "change-name"
\* does the same for the handlers of "name-changed".
C4_Emission ==
    \A sig \in SIGNALS, args \in ArgSeqs :
        LET E == emit(hlist, store, sig.name, args)
        IN  E.res = "Ok" =>
                /\ \A i \in 1..Len(hlist) :
                    /\ Count(E.invoked, hlist[i].id) =
                           IF hlist[i].sig = sig.name /\ hlist[i].blocked = 0
                           THEN 1 ELSE 0
                    /\ Count(E.nested, hlist[i].id) =
                           IF /\ E.class
                              /\ hlist[i].sig = "name-changed"
                              /\ hlist[i].blocked = 0
                           THEN 1 ELSE 0
                /\ \A k \in DOMAIN E.invoked :
                    E.invoked[k] \in HandlerIdsOf(hlist)
                /\ \A k \in DOMAIN E.nested :
                    E.nested[k] \in HandlerIdsOf(hlist)

\* block leaves its handler connected and blocked; unblock takes one block
\* off and the handler takes part again once none is left; disconnect
\* removes its handler for good (no id is handed out twice); each leaves
\* the other handlers as they were; connect adds an unblocked handler; an
\* emission changes no handler.
C4_Step ==
    /\ out'.op = "block" =>
        \E id \in HandlerIdsOf(hlist) :
            /\ id \in HandlerIdsOf(hlist') /\ Blocked(hlist', id)
            /\ BlockCount(hlist', id) = BlockCount(hlist, id) + 1
            /\ Unblocked(hlist') = Unblocked(hlist)
            /\ Others(hlist', id) = Others(hlist, id)
    /\ out'.op = "unblock" =>
        \E id \in HandlerIdsOf(hlist) :
            /\ id \in HandlerIdsOf(hlist')
            /\ BlockCount(hlist, id) > 0 =>
                   BlockCount(hlist', id) = BlockCount(hlist, id) - 1
            /\ BlockCount(hlist, id) <= 1 => ~Blocked(hlist', id)
            /\ Unblocked(hlist') = Unblocked(hlist)
    /\ out'.op = "disconnect" =>
        \E id \in HandlerIdsOf(hlist) :
            /\ id \notin HandlerIdsOf(hlist')
            /\ hlist' = SelectSeq(hlist, LAMBDA h : h.id # id)
    /\ (out'.op = "connect" /\ out'.res = "Ok") =>
        /\ HandlerIdsOf(hlist') = HandlerIdsOf(hlist) \cup {next_hid}
        /\ ~Blocked(hlist', next_hid)
        /\ SubSeq(hlist', 1, Len(hlist)) = hlist
        /\ next_hid' > next_hid
    /\ out'.op = "emit" => hlist' = hlist
    /\ HandlerIdsOf(hlist') \ HandlerIdsOf(hlist) \subseteq {next_hid}
    /\ \A id \in HandlerIdsOf(hlist) : id < next_hid

\* C4: a connected handler is invoked exactly once by each emission of its
\* signal while it is not blocked, not at all while it is blocked, again
\* once it is unblocked, and never after it is disconnected; other
\* handlers and later connections are not affected.
C4_HandlerLifecycle == []C4_Emission /\ [][C4_Step]_vars

\* An emission that returned after it ran the one handler that is left,
\* the other handler having been disconnected.
C4_Witness ==
    /\ out.op = "emit" /\ out.res = "Ok"
    /\ next_hid = 3 /\ Len(hlist) = 1
    /\ hlist[1].sig = out.name
    /\ out.invoked = <<hlist[1].id>>

EmitErrors == {SignalNotFound, ArgumentCountMismatch, ArgumentTypeMismatch}

\* C5: emit returns SignalNotFound for a name that is no signal of the
\* type, ArgumentCountMismatch for another number of arguments than the
\* signal has parameters, ArgumentTypeMismatch for an argument whose type
\* is not exactly the parameter's; with any of these no handler and no
\* class handler runs and nothing changes.
C5_EmitErrors ==
    /\ \A signal_name \in SignalNames, args \in ArgSeqs :
        LET E == emit(hlist, store, signal_name, args)
        IN  /\ (~\E sig \in SIGNALS : sig.name = signal_name) =>
                    E.res = SignalNotFound
            /\ \A sig \in SIGNALS :
                sig.name = signal_name =>
                    /\ Len(args) # Len(sig.param_types) =>
                           E.res = ArgumentCountMismatch
                    /\ (/\ Len(args) = Len(sig.param_types)
                        /\ \E i \in 1..Len(args) :
                               args[i].ty # sig.param_types[i]) =>
                           E.res = ArgumentTypeMismatch
                    /\ (/\ Len(args) = Len(sig.param_types)
                        /\ \A i \in 1..Len(args) :
                               args[i].ty = sig.param_types[i]) =>
                           E.res \notin EmitErrors
            /\ E.res \in EmitErrors =>
                    /\ E.invoked = <<>> /\ E.nested = <<>> /\ ~E.class
                    /\ E.st = store
    /\ (out.op = "emit" /\ out.res \in EmitErrors) =>
            /\ out.invoked = <<>> /\ out.nested = <<>> /\ ~out.class
            /\ out.value = NoValue /\ crashed = "no"

\* An emission of "change-name" with a boolean for its string was refused
\* while a handler was connected to it.
C5_Witness ==
    /\ out.op = "emit" /\ out.res = ArgumentTypeMismatch
    /\ out.name = "change-name"
    /\ \E i \in 1..Len(hlist) :
        hlist[i].sig = "change-name" /\ hlist[i].blocked = 0

\* What a handler connected to a signal with return type R may not return:
\* a value when R is unit; otherwise nothing, or a value that is an
\* instance of neither R nor a subtype of R.
C6_Rejected(R, ret) ==
    IF R = "Unit" THEN ret # NoValue
    ELSE ret = NoValue \/ ~is_a(runtime_type(ret), R)

\* The unblocked handlers of the signal of the last emission.
C6_Handlers ==
    {hlist[i] : i \in {j \in 1..Len(hlist) :
                          hlist[j].sig = out.name /\ hlist[j].blocked = 0}}

\* C6: the value a handler returns is checked on every invocation against
\* the return type of the signal: with a unit return type any value is
\* rejected; otherwise no value, and a value that is of neither the return
\* type nor a subtype, is rejected; only a compatible value reaches the
\* emission, and emit of a signal with a return type then returns Some
\* value of a type that is_a the return type.
C6_ReturnChecked ==
    (out.op = "emit" /\ out.res \in {"Ok", "panic"}) =>
        LET R == g_signal_query(out.name).return_type
        IN  /\ out.res = "Ok" =>
                /\ \A h \in C6_Handlers : ~C6_Rejected(R, h.cb)
                /\ R # "Unit" =>
                       out.value # NoValue /\ is_a(out.value.ty, R)
            /\ (out.res = "panic" /\ out.name # "change-name") =>
                \E h \in C6_Handlers : C6_Rejected(R, h.cb)

\* ------------------------------------------------ more claims on Spec
\* Right after a successful Object::new the handle is the only owner: one
\* reference, not floating, one handle; no instance has a type that is
\* not an object type.
C11_Owned ==
    /\ \A p \in Ptrs : Allocated(p) => is_a(rtype[p], "Object")
    /\ (last.op = "new" /\ last.ok) =>
        /\ Allocated(last.ptr)
        /\ ref_count[last.ptr] = 1
        /\ ~floating[last.ptr]
        /\ nhandles(last.ptr) = 1
        /\ finalized[last.ptr] = 0

\* An Object::new that fails creates nothing and changes no instance; one
\* that succeeds creates exactly one instance; the drop of the handle it
\* returned, when it is the next operation, destroys the instance. (A step
\* that leaves `last` as it is is not an Object::new.)
C11_Step ==
    /\ (last' # last /\ last'.op = "new" /\ ~last'.ok) =>
        UNCHANGED <<foreignVars, made, dropped>>
    /\ (last' # last /\ last'.op = "new" /\ last'.ok) =>
        /\ next_ptr' = next_ptr + 1
        /\ last'.ptr = next_ptr
        /\ made'[next_ptr] = 1
        /\ \A q \in Ptrs \ {next_ptr} :
            /\ ref_count'[q] = ref_count[q]
            /\ floating'[q] = floating[q]
            /\ rtype'[q] = rtype[q]
    /\ next_ptr' # next_ptr => (last'.op = "new" /\ last'.ok)
    /\ (last.op = "new" /\ last.ok /\ last'.op = "drop"
            /\ last'.ptr = last.ptr) =>
        /\ finalized'[last.ptr] = 1
        /\ ref_count'[last.ptr] = 0

\* C11: Object::new fails without creating an instance for a type that is
\* not an object type or when the constructor returns none; on success the
\* handle owns exactly one reference and the instance is not floating,
\* whether it was created floating (sunk once, no increment) or owned
\* (taken over, no increment), so dropping that handle destroys it.
C11_NewOwnsOne == []C11_Owned /\ [][C11_Step]_vars

\* An instance created floating was destroyed by the drop of the one
\* handle Object::new returned.
C11_Witness ==
    \E p \in Ptrs :
        /\ Allocated(p) /\ rtype[p] = "InitiallyUnowned"
        /\ made[p] = 1 /\ dropped[p] = 1 /\ finalized[p] = 1
        /\ last.op = "drop" /\ last.ptr = p

\* ------------------------------------------------------------ notification
\* Properties of other classes that set_property does not announce: one
\* flagged EXPLICIT_NOTIFY and one that is not readable.
NotifyParamSpecs ==
    {[name |-> "quiet", vtype |-> "I32",
      flags |-> READWRITE \cup {"EXPLICIT_NOTIFY"}],
     [name |-> "sink", vtype |-> "I32", flags |-> {"WRITABLE"}]}
NotifyProps == PROPERTIES \cup NotifyParamSpecs
NotifyNames == {ps.name : ps \in NotifyProps} \cup {"test"}
NoParamSpec == [name |-> "", vtype |-> "Invalid", flags |-> {}]
pspec_of(name) ==
    IF \E ps \in NotifyProps : ps.name = name
    THEN CHOOSE ps \in NotifyProps : ps.name = name
    ELSE NoParamSpec

\* What a closure connected to "name-changed" does with the instance it is
\* handed: nothing, or set_property("child", ..) once or twice.
Acts == {"none", "set_child", "set_child_twice"}
\* The value such a closure sets: an empty value of type ChildObject.
EmptyChild == Val("ChildObject", "None", "None")
\* The properties connect_notify is called with; "": Option::None, the
\* handler is connected to "notify" and hears every property.
NotifyDetails == {"", "name", "child"}

\* One event of a set_property: "enter" and "return" of the call, "commit"
\* when the class stored the value (of "name": whether it is the "same" as
\* before or "changed"), "handler" for a closure of "name-changed",
\* "notify" for a notify handler.
Ev(ev, prop, id, res) == [ev |-> ev, prop |-> prop, id |-> id, res |-> res]

RECURSIVE Concat(_)
Concat(seqs) == IF seqs = <<>> THEN <<>> ELSE Head(seqs) \o Concat(Tail(seqs))
Reverse(seq) == [i \in 1..Len(seq) |-> seq[Len(seq) + 1 - i]]

\* object_set_property decides whether the property joins the notify
\* queue: readable and not EXPLICIT_NOTIFY.
Notifies(pspec) ==
    "READABLE" \in pspec.flags /\ "EXPLICIT_NOTIFY" \notin pspec.flags
\* g_object_notify_queue_add: a property is queued once.
g_object_notify_queue_add(queue, name) ==
    IF \E i \in 1..Len(queue) : queue[i] = name THEN queue
    ELSE Append(queue, name)
\* dispatch_properties_changed: "notify::<property>" is emitted for each
\* queued property; a handler connected with that detail or with none runs.
dispatch_properties_changed(nl, queue) ==
    Concat([k \in 1..Len(queue) |->
        LET H == SelectSeq(nl, LAMBDA h : h.prop \in {"", queue[k]})
        IN  [i \in 1..Len(H) |-> Ev("notify", queue[k], H[i].id, "Ok")]])

RECURSIVE set_property(_, _, _, _, _, _, _)
RECURSIVE g_object_set_property(_, _, _, _, _, _, _)
RECURSIVE set_property_impl(_, _, _, _, _, _)
RECURSIVE name_changed(_, _, _, _, _)

\* The closures connected to "name-changed" run in connection order, each
\* inside the emission the setter of "name" started; k is the next to run.
name_changed(nl, ac, st, k, lifo) ==
    IF k > Len(ac)
    THEN [st |-> st, trace |-> <<>>, queue |-> <<>>]
    ELSE LET n == CASE ac[k] = "set_child" -> 1
                    [] ac[k] = "set_child_twice" -> 2
                    [] OTHER -> 0
             S1 == IF n >= 1
                   THEN set_property(nl, ac, st, "child", EmptyChild, TRUE, lifo)
                   ELSE [res |-> "Ok", st |-> st, trace |-> <<>>,
                         queue |-> <<>>]
             S2 == IF n >= 2
                   THEN set_property(nl, ac, S1.st, "child", EmptyChild, TRUE,
                                     lifo)
                   ELSE [res |-> "Ok", st |-> S1.st, trace |-> <<>>,
                         queue |-> <<>>]
             R == name_changed(nl, ac, S2.st, k + 1, lifo)
         IN  [st |-> R.st,
              trace |-> <<Ev("handler", "name-changed", k, "Ok")>>
                        \o S1.trace \o S2.trace \o R.trace,
              queue |-> S1.queue \o S2.queue \o R.queue]

\* ObjectImpl::set_property of SimpleObject with the closures of
\* "name-changed" followed: "name" is stored and "name-changed" emitted,
\* "construct-name" is stored, "child" is not stored.
set_property_impl(nl, ac, st, name, value, lifo) ==
    IF name = "name"
    THEN LET st2 == [st EXCEPT !.name = value.data]
             E == name_changed(nl, ac, st2, 1, lifo)
         IN  [st |-> E.st,
              trace |-> <<Ev("commit", name, 0,
                             IF st.name = value.data THEN "same"
                             ELSE "changed")>> \o E.trace,
              queue |-> E.queue]
    ELSE IF name = "construct-name"
    THEN [st |-> [st EXCEPT !.construct_name = value.data],
          trace |-> <<Ev("commit", name, 0, "Ok")>>, queue |-> <<>>]
    ELSE [st |-> st, trace |-> <<Ev("commit", name, 0, "Ok")>>,
          queue |-> <<>>]

\* g_object_set_property: the notify queue of the instance is frozen, the
\* class sets the property, the property joins the queue, the queue is
\* thawed: when this call froze it first (it was not frozen) the queued
\* properties are dispatched, in queue order or in the reverse order;
\* otherwise they stay queued for the call that did.
g_object_set_property(nl, ac, st, pspec, value, frozen, lifo) ==
    LET S == set_property_impl(nl, ac, st, pspec.name, value, lifo)
        Q == [i \in 1..Len(S.queue)
                + (IF Notifies(pspec) THEN 1 ELSE 0) |->
                 IF i <= Len(S.queue) THEN S.queue[i] ELSE pspec.name]
        RECURSIVE Dedup(_, _)
        Dedup(q, acc) ==
            IF q = <<>> THEN acc
            ELSE Dedup(Tail(q), g_object_notify_queue_add(acc, Head(q)))
        queue == Dedup(Q, <<>>)
    IN  IF frozen
        THEN [st |-> S.st, trace |-> S.trace, queue |-> queue]
        ELSE [st |-> S.st,
              trace |-> S.trace \o dispatch_properties_changed(nl,
                            IF lifo THEN Reverse(queue) ELSE queue),
              queue |-> <<>>]

\* A set_property that returns Ok without handing the value on.
set_property_NoCommit(nl, ac, st, name, v, frozen, lifo) ==
    [res |-> set_property_checks(\E ps \in NotifyProps : ps.name = name,
                                 pspec_of(name), v).res,
     st |-> st, queue |-> <<>>,
     trace |-> <<Ev("enter", name, 0, "Ok"),
                 Ev("return", name, 0,
                    set_property_checks(\E ps \in NotifyProps : ps.name = name,
                                        pspec_of(name), v).res)>>]

\* A set_property that hands the value on before it looks at the checks.
set_property_ChecksLast(nl, ac, st, name, v, frozen, lifo) ==
    LET found == \E ps \in NotifyProps : ps.name = name
        Result(C, G) ==
            [res |-> C.res, st |-> G.st, queue |-> G.queue,
             trace |-> <<Ev("enter", name, 0, "Ok")>> \o G.trace
                       \o <<Ev("return", name, 0, C.res)>>]
    IN  Result(set_property_checks(found, pspec_of(name), v),
               g_object_set_property(nl, ac, st, pspec_of(name), to_value(v),
                                     frozen, lifo))

\* ObjectExt::set_property: the checks, then g_object_set_property with the
\* validated value.
set_property(nl, ac, st, name, v, frozen, lifo) ==
    LET found == \E ps \in NotifyProps : ps.name = name
        C == set_property_checks(found, pspec_of(name), v)
    IN  IF C.res # "Ok"
        THEN [res |-> C.res, st |-> st, queue |-> <<>>,
              trace |-> <<Ev("enter", name, 0, "Ok"),
                          Ev("return", name, 0, C.res)>>]
        ELSE LET G == g_object_set_property(nl, ac, st, pspec_of(name),
                                            C.value, frozen, lifo)
             IN  [res |-> "Ok", st |-> G.st, queue |-> G.queue,
                  trace |-> <<Ev("enter", name, 0, "Ok")>> \o G.trace
                            \o <<Ev("return", name, 0, "Ok")>>]

\* ---------------------------------------------------------- SpecNotify
InitNotify ==
    /\ ForeignInit
    /\ made = <<>> /\ dropped = <<>> /\ weaks = <<>> /\ pc = <<>> /\ tmp = <<>>
    /\ last = NoOp
    /\ handles = <<>>
    /\ next_inst = 1
    /\ store = [name |-> "a", construct_name |-> "meh", constructed |-> "true"]
    /\ lastset = <<>> /\ hlist = NoHandlers /\ next_hid = 1
    /\ out = NoOut /\ crashed = "no"
    /\ nlist = <<>> /\ acts = <<>> /\ trace = <<>>
    /\ NoMore

notifyRest == <<foreignVars, refVars, last, castVars, lastset, hlist,
                next_hid, out, crashed, moreVars>>

\* obj.connect_notify(Some(prop), f), or connect_notify(None, f) for "".
ConnectNotify(prop) ==
    /\ Len(nlist) < MaxNotifyHandlers
    /\ nlist' = Append(nlist, [id |-> Len(nlist) + 1, prop |-> prop])
    /\ trace' = <<>>
    /\ UNCHANGED <<store, acts, notifyRest>>

\* obj.connect("name-changed", false, closure) with a closure that does act.
ConnectNameChanged(act) ==
    /\ Len(acts) < MaxActs
    /\ acts' = Append(acts, act)
    /\ trace' = <<>>
    /\ UNCHANGED <<store, nlist, notifyRest>>

\* obj.set_property(name, &v) by the program, no set_property under way.
NotifySetProperty(name, v, lifo) ==
    /\ LET R == set_property(nlist, acts, store, name, v, FALSE, lifo)
       IN  /\ store' = R.st
           /\ trace' = R.trace
    /\ UNCHANGED <<nlist, acts, notifyRest>>

\* The values the program sets.
NotifyValues ==
    {SetValue_to_value("String", "None", "a"),
     SetValue_to_value("String", "None", "b"),
     SetValue_to_value("Bool", "None", "true"),
     SetValue_to_value("I32", "None", "0"),
     SetValue_to_value("I32", "None", "2"), EmptyChild}

NextNotify ==
    \/ \E prop \in NotifyDetails : ConnectNotify(prop)
    \/ \E act \in Acts : ConnectNameChanged(act)
    \/ \E name \in NotifyNames, v \in NotifyValues, lifo \in BOOLEAN :
        NotifySetProperty(name, v, lifo)

SpecNotify == InitNotify /\ [][NextNotify]_vars

\* ------------------------------------------------ claims on SpecNotify
\* The notify handlers that hear property p.
C12_Hearers(p) == {nlist[i].id : i \in {j \in 1..Len(nlist) :
                                            nlist[j].prop \in {"", p}}}
\* The notifications of p to handler id among the events e+1 .. r-1.
C12_Notes(p, id, e, r) ==
    {i \in (e + 1)..(r - 1) : trace[i] = Ev("notify", p, id, "Ok")}
\* Where the call that returns at r entered.
C12_Enter(r) ==
    CHOOSE e \in 1..(r - 1) :
        /\ trace[e].ev = "enter" /\ trace[e].prop = trace[r].prop
        /\ \A k \in (e + 1)..(r - 1) :
            ~(trace[k].ev = "enter" /\ trace[k].prop = trace[r].prop)
\* Where the call that returns at r committed the value.
C12_Commit(r) ==
    CHOOSE c \in (C12_Enter(r) + 1)..(r - 1) :
        trace[c].ev = "commit" /\ trace[c].prop = trace[r].prop

C24_Failed ==
    /\ trace' # <<>>
    /\ trace'[Len(trace')].ev = "return"
    /\ trace'[Len(trace')].res # "Ok"

C24_Step ==
    C24_Failed =>
        /\ store' = store
        /\ get_property(store', trace'[Len(trace')].prop)
                = get_property(store, trace'[Len(trace')].prop)
        /\ \A i \in DOMAIN trace' :
                trace'[i].ev \notin {"commit", "handler", "notify"}

\* C24: when set_property returns an error the instance is left as it was:
\* get_property of that property returns what it returned before the call,
\* the property setter of the class was not invoked, and no closure of
\* "name-changed" and no notify handler ran.
C24_FailedSetLeaves == [][C24_Step]_vars

\* The name was set to "b"; then a set_property of "name" with a value of
\* another type failed, a notify handler of "name" being connected.
C24_Witness ==
    /\ trace # <<>>
    /\ trace[Len(trace)] = Ev("return", "name", 0, TypeMismatch)
    /\ store.name = "b"
    /\ \E i \in 1..Len(nlist) : nlist[i].prop = "name"
    /\ acts # <<>>

\* ----------------------------------------------------------- SpecOrder
\* Emissions of signals with a class handler: "change-name" and the
\* signals of other classes.
OrderNames == {"change-name"} \cup {sig.name : sig \in OtherSignals}
\* The closures connected there: each returns what its signal asks for.
OrderCallback(signal_name) ==
    IF g_signal_query(signal_name).return_type = "Unit" THEN NoValue
    ELSE SetValue_to_value("String", "None", "a")
OrderArgs(signal_name) ==
    [i \in 1..Len(g_signal_query(signal_name).param_types) |->
        SetValue_to_value("String", "None", "b")]

NextOrder ==
    \/ \E signal_name \in OrderNames, after \in BOOLEAN :
        Connect(signal_name, after, OrderCallback(signal_name))
    \/ \E signal_name \in OrderNames :
        Emit(signal_name, OrderArgs(signal_name))
    \/ \E id \in HandlerIds : Block(id)
    \/ \E id \in HandlerIds : Unblock(id)
    \/ \E id \in HandlerIds : Disconnect(id)

SpecOrder == InitObj /\ [][NextOrder]_vars

\* --------------------------------------------------- claims on SpecOrder
\* Where x is in the order of the last emission (0: nowhere).
C13_Pos(x) ==
    IF \E i \in DOMAIN out.order : out.order[i] = x
    THEN CHOOSE i \in DOMAIN out.order : out.order[i] = x ELSE 0
\* The positions in hlist of the unblocked handlers of the signal of the
\* last emission that were connected with this `after`.
C13_Group(aft) ==
    {i \in 1..Len(hlist) : /\ hlist[i].sig = out.name
                           /\ hlist[i].blocked = 0
                           /\ hlist[i].after = aft}
\* Every connected, unblocked handler ran once, a handler connected
\* earlier before one of its group connected later, and the handlers
\* connected with after = false before those connected with after = true.
C13_Handlers ==
    /\ \A i \in C13_Group(FALSE) \cup C13_Group(TRUE) :
        Count(out.order, hlist[i].id) = 1
    /\ \A aft \in BOOLEAN : \A i, j \in C13_Group(aft) :
        i < j => C13_Pos(hlist[i].id) < C13_Pos(hlist[j].id)
    /\ \A i \in C13_Group(FALSE), j \in C13_Group(TRUE) :
        C13_Pos(hlist[i].id) < C13_Pos(hlist[j].id)
\* The class handler ran once, after the handlers connected with
\* after = false and before those connected with after = true.
C13_ClassBetween ==
    /\ Count(out.order, 0) = 1
    /\ \A i \in C13_Group(FALSE) : C13_Pos(hlist[i].id) < C13_Pos(0)
    /\ \A j \in C13_Group(TRUE) : C13_Pos(0) < C13_Pos(hlist[j].id)

\* C13 as claimed: in every emission that returns the handlers run in
\* connection order, those connected with after = false, then the class
\* handler, then those connected with after = true.
C13_Original ==
    (out.op = "emit" /\ out.res = "Ok") =>
        /\ C13_Handlers
        /\ g_signal_query(out.name).class_handler => C13_ClassBetween

\* C13: in every emission that returns the handlers run in connection
\* order, those connected with after = false before those connected with
\* after = true; the class handler of a signal registered RUN_LAST runs
\* between the two groups, that of a RUN_FIRST signal before every
\* handler, that of a RUN_CLEANUP signal after every handler.
C13_Order ==
    (out.op = "emit" /\ out.res = "Ok") =>
        LET d == g_signal_query(out.name)
        IN  /\ C13_Handlers
            /\ (d.class_handler /\ "RUN_LAST" \in d.flags) => C13_ClassBetween
            /\ (d.class_handler /\ "RUN_FIRST" \in d.flags) =>
                   out.order[1] = 0 /\ Count(out.order, 0) = 1
            /\ (d.class_handler /\ "RUN_CLEANUP" \in d.flags) =>
                   out.order[Len(out.order)] = 0 /\ Count(out.order, 0) = 1

\* An emission of "change-name" ran a handler connected with after = false,
\* the class handler and a handler connected with after = true.
C13_Witness ==
    /\ out.op = "emit" /\ out.res = "Ok" /\ out.name = "change-name"
    /\ Len(out.order) = 3 /\ out.order[2] = 0
    /\ C13_Group(FALSE) # {} /\ C13_Group(TRUE) # {}

\* ----------------------------------------------------------- SpecStale
\* block_signal, unblock_signal or disconnect with an id that names no
\* handler of the instance: one never issued for it or one already
\* disconnected. The functions return nothing; the foreign runtime finds no
\* handler (and logs a warning).
Stale(op, id) ==
    /\ crashed = "no"
    /\ id \notin HandlerIdsOf(hlist)
    /\ hlist' = CASE op = "block" -> block_signal(hlist, id)
                  [] op = "unblock" -> unblock_signal(hlist, id)
                  [] OTHER -> disconnect(hlist, id)
    /\ out' = [NoOut EXCEPT !.op = op, !.name = "invalid id"]
    /\ UNCHANGED <<store, lastset, next_hid, crashed, otherVars>>

NextStale ==
    \/ \E after \in BOOLEAN : Connect("name-changed", after, NoValue)
    \/ \E id \in HandlerIds : Block(id)
    \/ \E id \in HandlerIds : Unblock(id)
    \/ \E id \in HandlerIds : Disconnect(id)
    \/ \E op \in {"block", "unblock", "disconnect"},
          id \in 1..(MaxHandlerIds + 1) : Stale(op, id)

SpecStale == InitObj /\ [][NextStale]_vars

\* --------------------------------------------------- claims on SpecStale
\* C14 as claimed: block, unblock or disconnect with an id that was never
\* issued for the instance or is already disconnected reports an error to
\* the caller.
C14_Original ==
    (out.op \in {"block", "unblock", "disconnect"}
        /\ out.name = "invalid id") => out.res # "Ok"

\* C14: block, unblock or disconnect with an id that was never issued for
\* the instance or is already disconnected returns nothing to the caller,
\* and leaves the connected handlers and their block counts as they were.
C14_StaleIgnored ==
    [][(out'.op \in {"block", "unblock", "disconnect"}
            /\ out'.name = "invalid id") =>
        /\ hlist' = hlist
        /\ out'.res = "Ok" /\ out'.value = NoValue
        /\ crashed' = crashed /\ next_hid' = next_hid]_vars

\* A disconnect with the id of a handler already disconnected, while
\* another handler is connected and blocked.
C14_Witness ==
    /\ out.op = "disconnect" /\ out.name = "invalid id"
    /\ Len(hlist) = 1 /\ next_hid = 3
    /\ hlist[1].blocked > 0

\* ---------------------------------------------------------- SpecNested
\* Emissions of "name-changed" from inside the setter of "name" and from
\* inside the class handler of "change-name", with handlers connected to
\* both signals.
NextNested ==
    \/ \E signal_name \in {"name-changed", "change-name"}, after \in BOOLEAN :
        \E cb \in CallbacksFor(signal_name) : Connect(signal_name, after, cb)
    \/ \E id \in HandlerIds : Block(id)
    \/ \E id \in HandlerIds : Unblock(id)
    \/ \E args \in ArgSeqs : Emit("change-name", args)
    \/ \E v \in StringValues \cup BoolValues : SetProperty("name", v)

SpecNested == InitObj /\ [][NextNested]_vars

\* -------------------------------------------------- claims on SpecNested
\* The step is an operation that returned and emitted "name-changed" from
\* inside: a set of "name" or an emission of "change-name".
C15_NestedStep ==
    /\ out'.op \in {"emit", "set_property"}
    /\ out'.res = "Ok"
    /\ out'.nested_args # <<>>
\* Every connected, unblocked handler of "name-changed" ran exactly once in
\* the nested emission, which carried the new name, and the handlers and
\* their block counts are as before.
C15_Inner ==
    /\ \A i \in 1..Len(hlist) :
        (hlist[i].sig = "name-changed" /\ hlist[i].blocked = 0) =>
            Count(out'.nested, hlist[i].id) = 1
    /\ out'.nested_args =
        <<Val("String", "None",
              IF out'.op = "emit" THEN out'.args[1].data
              ELSE out'.value.data)>>
    /\ store'.name = out'.nested_args[1].data
    /\ hlist' = hlist
\* The handlers of "change-name" connected with after = true that an
\* emission runs.
C15_After == Participants(hlist, "change-name", TRUE)

\* C15 as claimed: the outer emit returns the value produced by its own
\* class handler (the old name).
C15_Original ==
    [][(C15_NestedStep /\ out'.op = "emit") =>
        out'.value = Val("String", "None", store.name)]_vars

\* C15: a nested emission invokes every connected, unblocked handler of
\* the inner signal exactly once with the new value before the outer
\* operation returns and leaves the handler list and block counts as they
\* were; the outer emit returns the value of the last handler that ran: its
\* class handler's, unless a handler connected with after = true ran.
C15_Nested ==
    [][C15_NestedStep =>
        /\ C15_Inner
        /\ out'.op = "emit" =>
            out'.value = IF C15_After = <<>>
                         THEN Val("String", "None", store.name)
                         ELSE C15_After[Len(C15_After)].cb]_vars

\* An emission of "change-name" that ran a handler of "name-changed" from
\* inside its class handler, with a blocked handler of "name-changed"
\* left out, and returned the old name "b".
C15_Witness ==
    /\ out.op = "emit" /\ out.name = "change-name" /\ out.res = "Ok"
    /\ out.nested = <<1>> /\ Len(hlist) = 2
    /\ hlist[2].sig = "name-changed" /\ hlist[2].blocked > 0
    /\ out.value = Val("String", "None", "b")
    /\ store.name = "a"

\* ------------------------------------------------------------- SpecGet
\* What the foreign read leaves in the container of a property of another
\* class: a value of the declared type, or a container without a type.
Containers(pspec) ==
    {[panic |-> FALSE, value |-> Val(pspec.vtype, "None", "0")],
     [panic |-> FALSE, value |-> Val("Invalid", "None", "None")]}
GetParamSpecs == OtherParamSpecs \cup NotifyParamSpecs

\* get_property(pspec.name) on an instance of a class that installed
\* pspec, the foreign read leaving G in the container.
GetOtherProperty(pspec, G) ==
    /\ crashed = "no"
    /\ LET R == get_property_of(TRUE, pspec, G)
       IN  out' = [NoOut EXCEPT !.op = "get_property", !.name = pspec.name,
                                !.res = R.res, !.value = R.value]
    /\ UNCHANGED <<store, lastset, hlist, next_hid, crashed, otherVars>>

NextGet ==
    \/ \E name \in PropertyNames, v \in StringValues \cup ObjectValues :
        SetProperty(name, v)
    \/ \E name \in PropertyNames : GetProperty(name)
    \/ \E pspec \in GetParamSpecs :
        \E G \in Containers(pspec) : GetOtherProperty(pspec, G)

SpecGet == InitObj /\ [][NextGet]_vars

\* ----------------------------------------------------- claims on SpecGet
\* The outcome of a get_property that returns is the one claimed.
C16_Outcome(found, pspec, G, R) ==
    /\ ~found => R.res = PropertyNotFound
    /\ (found /\ "READABLE" \notin pspec.flags) => R.res = PropertyNotReadable
    /\ (found /\ "READABLE" \in pspec.flags /\ G.value.ty = "Invalid")
        => R.res = ReadFailed
    /\ (found /\ "READABLE" \in pspec.flags /\ G.value.ty # "Invalid")
        => R = [res |-> "Ok", value |-> G.value] /\ G.value.ty = pspec.vtype
C16_Results ==
    /\ \A name \in PropertyNames :
        ~SimpleObject_get_property(store, name).panic =>
            C16_Outcome(has_property(name), find_property(name),
                        SimpleObject_get_property(store, name),
                        get_property(store, name))
    /\ \A pspec \in GetParamSpecs : \A G \in Containers(pspec) :
        C16_Outcome(TRUE, pspec, G, get_property_of(TRUE, pspec, G))
C16_Step ==
    out'.op = "get_property" =>
        /\ store' = store /\ lastset' = lastset
        /\ out'.res \in {PropertyNotFound, PropertyNotReadable, ReadFailed,
                         "Ok", "panic"}
        /\ out'.res = "Ok" <=> out'.value # NoValue

C17_TypeName(ty) ==
    CASE ty = "String" -> "gchararray"
      [] ty = "Bool" -> "gboolean"
      [] ty = "I32" -> "gint"
      [] ty = "Object" -> "GObject"
      [] OTHER -> ty
\* The message of a set_property error that names the property, the type
\* of the instance and, for a type mismatch, the expected and the actual
\* type.
C17_Message(name, res, v) ==
    "property '" \o name \o "' of type 'SimpleObject' " \o
    (CASE res = PropertyNotFound -> "not found"
       [] res = PropertyNotWritable -> "is not writable"
       [] res = TypeMismatch ->
            "can't be set from the given type (expected: '"
            \o C17_TypeName(find_property(name).vtype) \o "', got: '"
            \o C17_TypeName(to_value_type(v)) \o "')"
       [] OTHER -> "can't be set from given value, it is invalid or out of range")

\* C17: every error returned by set_property carries the property name and
\* the name of the instance's type, and a type-mismatch error also the
\* expected and the actual type name.
C17_ErrorsCarryNames ==
    (out.op = "set_property" /\ out.name \in PropertyNames
        /\ out.res \notin {"Ok", "panic"}) =>
            out.res = C17_Message(out.name, out.res, out.value)

\* ------------------------------------------------------------ SpecSend
\* SendWeakRef: a WeakRef slot with the id of the thread it was made on.
NotSend == [is |-> FALSE, some |-> FALSE, id |-> 0]

\* get_thread_id on thread t: the thread's id, taken from the counter the
\* first time the thread asks.
get_thread_id(tid, counter, t) ==
    IF tid[t] # -1
    THEN [id |-> tid[t], tid |-> tid, counter |-> counter]
    ELSE [id |-> counter, tid |-> [tid EXCEPT ![t] = counter],
          counter |-> counter + 1]

\* A deref that never panics.
deref_NoCheck(s, tid, counter, t) ==
    [panic |-> FALSE, tid |-> tid, counter |-> counter]

\* Deref for SendWeakRef on thread t: panics when the origin is Some and is
\* not the id of t; the id is asked for only when the origin is Some.
deref(s, tid, counter, t) ==
    IF ~s.some THEN [panic |-> FALSE, tid |-> tid, counter |-> counter]
    ELSE LET G == get_thread_id(tid, counter, t)
         IN  [panic |-> s.id # G.id, tid |-> G.tid, counter |-> G.counter]

\* SendWeakRef::into_weak_ref on thread t: the same test.
into_weak_ref(s, tid, counter, t) ==
    IF ~s.some THEN [panic |-> FALSE, tid |-> tid, counter |-> counter]
    ELSE LET G == get_thread_id(tid, counter, t)
         IN  [panic |-> s.id # G.id, tid |-> G.tid, counter |-> G.counter]

NoSOut == [op |-> "none", thread |-> 0, slot |-> 0, res |-> "Ok", new |-> 0]

InitSend ==
    /\ ForeignInit
    /\ made = [p \in Ptrs |-> 0]
    /\ dropped = [p \in Ptrs |-> 0]
    /\ weaks = [w \in WeakIds |-> NoWeak]
    /\ pc = [t \in Threads |-> "idle"]
    /\ tmp = [t \in Threads |-> NoTmp]
    /\ last = NoOp
    /\ handles = <<>>
    /\ next_inst = 1
    /\ NoObject
    /\ nlist = <<>> /\ acts = <<>> /\ trace = <<>>
    /\ sends = [w \in WeakIds |-> NotSend]
    /\ THREAD_ID = [t \in Threads |-> -1]
    /\ COUNTER = 0
    /\ sout = NoSOut
    /\ NoBind /\ NoCtor /\ NoLate

sendRest == <<last, pc, tmp, castVars, objVars, extVars, bindVars, insts,
              lateVars>>

\* SendWeakRef::new() on thread t: an empty weak slot, no origin.
SendNew(t) ==
    /\ FreeWeaks # {}
    /\ weaks' = [weaks EXCEPT ![NewWeak] = [NoWeak EXCEPT !.used = TRUE]]
    /\ sends' = [sends EXCEPT ![NewWeak] = [NotSend EXCEPT !.is = TRUE]]
    /\ sout' = [NoSOut EXCEPT !.op = "new", !.thread = t, !.slot = NewWeak]
    /\ UNCHANGED <<foreignVars, made, dropped, THREAD_ID, COUNTER, sendRest>>

\* SendWeakRef::from(weak) on thread t, weak being the WeakRef in slot w.
SendFrom(t, w) ==
    /\ weaks[w].used /\ ~sends[w].is
    /\ LET G == get_thread_id(THREAD_ID, COUNTER, t)
       IN  /\ sends' = [sends EXCEPT ![w] =
                           [is |-> TRUE, some |-> TRUE, id |-> G.id]]
           /\ THREAD_ID' = G.tid
           /\ COUNTER' = G.counter
    /\ sout' = [NoSOut EXCEPT !.op = "from", !.thread = t, !.slot = w]
    /\ UNCHANGED <<foreignVars, made, dropped, weaks, sendRest>>

\* send.upgrade() on thread t: Deref, then WeakRef::upgrade.
SendUpgrade(t, w) ==
    /\ sends[w].is
    /\ weaks[w].ptr # NULL => CanAddHandle(weaks[w].ptr)
    /\ LET D == deref(sends[w], THREAD_ID, COUNTER, t)
           O == [NoSOut EXCEPT !.op = "upgrade", !.thread = t, !.slot = w]
           R == g_weak_ref_get(ref_count, weaks, w)
       IN  /\ THREAD_ID' = D.tid
           /\ COUNTER' = D.counter
           /\ IF D.panic
              THEN /\ sout' = [O EXCEPT !.res = "panic"]
                   /\ UNCHANGED <<ref_count, floating, made>>
              ELSE IF R.ptr = NULL
              THEN /\ sout' = [O EXCEPT !.res = "None"]
                   /\ UNCHANGED <<ref_count, floating, made>>
              ELSE LET U == upgrade_wrap(R.rc, floating, R.ptr, "Object")
                   IN  /\ ref_count' = U.rc
                       /\ floating' = U.fl
                       /\ made' = [made EXCEPT ![U.h.ptr] = @ + 1]
                       /\ sout' = [O EXCEPT !.res = "Some"]
    /\ UNCHANGED <<next_ptr, rtype, finalized, dropped, weaks, sends, sendRest>>

\* send.into_weak_ref() on thread t; a panic drops the value it consumed.
SendIntoWeakRef(t, w) ==
    /\ sends[w].is
    /\ LET D == into_weak_ref(sends[w], THREAD_ID, COUNTER, t)
           O == [NoSOut EXCEPT !.op = "into_weak_ref", !.thread = t,
                               !.slot = w]
       IN  /\ THREAD_ID' = D.tid
           /\ COUNTER' = D.counter
           /\ sends' = [sends EXCEPT ![w] = NotSend]
           /\ IF D.panic
              THEN /\ sout' = [O EXCEPT !.res = "panic"]
                   /\ weaks' = [weaks EXCEPT ![w] = NoWeak]
              ELSE /\ sout' = O
                   /\ UNCHANGED weaks
    /\ UNCHANGED <<foreignVars, made, dropped, sendRest>>

\* send.clone() on thread t: WeakRef::clone of the slot (g_weak_ref_get,
\* g_weak_ref_init of the new slot, g_object_unref) and a copy of the origin.
SendClone(t, w) ==
    /\ sends[w].is
    /\ FreeWeaks # {}
    /\ LET R == g_weak_ref_get(ref_count, weaks, w)
           c == NewWeak
           wk == [weaks EXCEPT ![c] = [used |-> TRUE, ptr |-> R.ptr,
                                       target |-> weaks[w].target]]
           U == IF R.ptr # NULL
                THEN g_object_unref(R.rc, finalized, wk, R.ptr)
                ELSE [rc |-> R.rc, fin |-> finalized, wk |-> wk]
       IN  /\ ref_count' = U.rc
           /\ finalized' = U.fin
           /\ weaks' = U.wk
           /\ sends' = [sends EXCEPT ![c] = sends[w]]
           /\ sout' = [NoSOut EXCEPT !.op = "clone", !.thread = t,
                                     !.slot = w, !.new = c]
    /\ UNCHANGED <<next_ptr, rtype, floating, made, dropped, THREAD_ID,
                   COUNTER, sendRest>>

\* drop(send) on thread t: Drop for WeakRef.
SendDrop(t, w) ==
    /\ sends[w].is
    /\ weaks' = [weaks EXCEPT ![w] = NoWeak]
    /\ sends' = [sends EXCEPT ![w] = NotSend]
    /\ sout' = [NoSOut EXCEPT !.op = "drop", !.thread = t, !.slot = w]
    /\ UNCHANGED <<foreignVars, made, dropped, THREAD_ID, COUNTER, sendRest>>

NextSend ==
    \/ ObjectNew("Object", FALSE)
    \/ \E p \in Ptrs : Drop(p)
    \/ \E p \in Ptrs : Downgrade(p)
    \/ \E w \in WeakIds : ~sends[w].is /\ DropWeak(w)
    \/ \E t \in Threads : SendNew(t)
    \/ \E t \in Threads, w \in WeakIds : SendFrom(t, w)
    \/ \E t \in Threads, w \in WeakIds : SendUpgrade(t, w)
    \/ \E t \in Threads, w \in WeakIds : SendIntoWeakRef(t, w)
    \/ \E t \in Threads, w \in WeakIds : SendClone(t, w)
    \/ \E t \in Threads, w \in WeakIds : SendDrop(t, w)

SpecSend == InitSend /\ [][NextSend]_vars

\* ---------------------------------------------------- claims on SpecSend
\* Thread t is not the thread the SendWeakRef in slot w was made on from a
\* WeakRef.
C18_Elsewhere(t, w) ==
    \E O \in Threads : O # t /\ THREAD_ID[O] = sends[w].id
\* The id in every origin is that of exactly one thread.
C18_Origins ==
    \A w \in WeakIds : (sends[w].is /\ sends[w].some) =>
        Cardinality({O \in Threads : THREAD_ID[O] = sends[w].id}) = 1
C18_Step ==
    \A t \in Threads, w \in WeakIds :
        /\ (sends[w].some /\ (SendUpgrade(t, w) \/ SendIntoWeakRef(t, w))) =>
            /\ sout'.res = "panic" <=> C18_Elsewhere(t, w)
            /\ sout'.res = "panic" => UNCHANGED <<foreignVars, made, dropped>>
        /\ SendClone(t, w) =>
            /\ sout'.res # "panic"
            /\ sends'[sout'.new] = sends[w]
            /\ sends'[w] = sends[w]
        /\ SendDrop(t, w) => sout'.res # "panic"

\* C18: a SendWeakRef created from a WeakRef on thread O panics, without
\* touching the target, whenever it is dereferenced (upgrade) or converted
\* with into_weak_ref on another thread, and never on O; clone and drop
\* never panic on any thread, and a clone keeps the origin thread.
C18_SendWeakRef == []C18_Origins /\ [][C18_Step]_vars

\* An upgrade on thread 2 panicked through a clone, made on thread 2, of a
\* SendWeakRef made on thread 1, the target alive and untouched.
C18_Witness ==
    /\ sout.op = "upgrade" /\ sout.res = "panic" /\ sout.thread = 2
    /\ sout.slot = 2
    /\ sends[1].some /\ sends[2] = sends[1] /\ THREAD_ID[1] = sends[1].id
    /\ ref_count[1] = 1 /\ weaks[2].ptr = 1

\* ------------------------------------------------------------ SpecBind
\* One binding from property a of X to property b of Y, both integers of
\* the range 0..1, built with a transform_to function.
\* The transform_to functions: what each returns for the value of a.
BindFuncs == {"double", "inc", "odd_only", "never"}
func(f, from) ==
    CASE f = "double" ->
            [from EXCEPT !.data = IF from.data = "0" THEN "0" ELSE "2"]
      [] f = "inc" ->
            [from EXCEPT !.data = IF from.data = "0" THEN "1" ELSE "2"]
      [] f = "odd_only" -> IF from.data = "1" THEN from ELSE NoValue
      [] OTHER -> NoValue

\* A transform closure that reports a value when func returned none.
transform_closure_AlwaysTrue(f, from, to) ==
    IF func(f, from) = NoValue THEN [ret |-> TRUE, to |-> to]
    ELSE [ret |-> TRUE, to |-> func(f, from)]

\* BindingBuilder::transform_closure: the closure handed to the foreign
\* runtime; values[1] is `from`, values[2] is `to`. It returns false when
\* func returns None, else puts the value in values[2] and returns true.
transform_closure(f, from, to) ==
    IF func(f, from) = NoValue THEN [ret |-> FALSE, to |-> to]
    ELSE [ret |-> TRUE, to |-> func(f, from)]

\* The binding's handler of "notify::a" of the source: the value of a is
\* read, the transform closure is called with a `to` initialised with the
\* type of b, and when it returns true the value is validated against b and
\* set on the target. The result is the value of b.
on_source_notify(f, b_pspec, xa, yb) ==
    LET T == transform_closure(f, Val("I32", "None", xa),
                               Val(b_pspec.vtype, "None", "0"))
    IN  IF T.ret THEN g_param_value_validate(b_pspec, T.to).value.data
        ELSE yb

\* The properties a can be, and b.
SourceParamSpecs ==
    {ps \in OtherParamSpecs \cup NotifyParamSpecs : ps.name \in {"level", "quiet"}}
TargetParamSpec == CHOOSE ps \in OtherParamSpecs : ps.name = "level"

NoBOut == [op |-> "none", res |-> "Ok", value |-> NoValue]
InitBind ==
    /\ ForeignInit
    /\ made = <<>> /\ dropped = <<>> /\ weaks = <<>> /\ pc = <<>> /\ tmp = <<>>
    /\ last = NoOp
    /\ handles = <<>>
    /\ next_inst = 1
    /\ NoObject
    /\ nlist = <<>> /\ acts = <<>> /\ trace = <<>>
    /\ NoSend
    /\ \E a \in SourceParamSpecs :
        bst = [xa |-> "0", yb |-> "0", built |-> FALSE, bound |-> FALSE,
               f |-> "never", a |-> a]
    /\ bout = NoBOut
    /\ NoCtor /\ NoLate

bindRest == <<foreignVars, refVars, last, castVars, objVars, extVars, sendVars,
              insts, lateVars>>

\* X.bind_property("a", &Y, "b").transform_to(f).build(), returning a
\* binding.
Build(f) ==
    /\ ~bst.built
    /\ bst' = [bst EXCEPT !.built = TRUE, !.bound = TRUE, !.f = f]
    /\ bout' = [NoBOut EXCEPT !.op = "build"]
    /\ UNCHANGED bindRest

\* binding.unbind()
Unbind ==
    /\ bst.bound
    /\ bst' = [bst EXCEPT !.bound = FALSE]
    /\ bout' = [NoBOut EXCEPT !.op = "unbind"]
    /\ UNCHANGED bindRest

\* X.set_property("a", &v): the checks, the value stored, and when the
\* property notifies and the binding is bound, the binding's handler.
SetA(v) ==
    /\ LET C == set_property_checks(TRUE, bst.a, v)
       IN  /\ bout' = [NoBOut EXCEPT !.op = "set_a", !.res = C.res,
                                     !.value = v]
           /\ IF C.res # "Ok" THEN UNCHANGED bst
              ELSE bst' = [bst EXCEPT
                    !.xa = C.value.data,
                    !.yb = IF bst.bound /\ Notifies(bst.a)
                           THEN on_source_notify(bst.f, TargetParamSpec,
                                                 C.value.data, bst.yb)
                           ELSE bst.yb]
    /\ UNCHANGED bindRest

\* Y.set_property("b", &v)
SetB(v) ==
    /\ LET C == set_property_checks(TRUE, TargetParamSpec, v)
       IN  /\ bout' = [NoBOut EXCEPT !.op = "set_b", !.res = C.res,
                                     !.value = v]
           /\ IF C.res # "Ok" THEN UNCHANGED bst
              ELSE bst' = [bst EXCEPT !.yb = C.value.data]
    /\ UNCHANGED bindRest

BindValues ==
    {SetValue_to_value("I32", "None", d) : d \in {"0", "1", "2"}}
        \cup {SetValue_to_value("Bool", "None", "true")}
NextBind ==
    \/ \E f \in BindFuncs : Build(f)
    \/ Unbind
    \/ \E v \in BindValues : SetA(v)
    \/ \E v \in BindValues : SetB(v)

SpecBind == InitBind /\ [][NextBind]_vars

\* ---------------------------------------------------- claims on SpecBind
\* The step is a successful set of X.a after build returned the binding.
C19_SetStep ==
    /\ bst.built
    /\ bout'.op = "set_a" /\ bout'.res = "Ok"
    /\ \E v \in BindValues : SetA(v)

\* C19 as claimed: after build returned the binding, every successful set
\* of X.a to v leaves Y.b equal to f(v), and unchanged when f returns no
\* value for v.
C19_Original ==
    [][C19_SetStep =>
        bst'.yb = IF func(bst.f, bout'.value) = NoValue THEN bst.yb
                  ELSE func(bst.f, bout'.value).data]_vars

\* C19: after build returned the binding and until it is unbound, every
\* successful set of X.a to v that notifies a leaves Y.b equal to f(v)
\* validated against b (brought into the range of b) by the time
\* set_property returns, and unchanged when f returns no value for v.
C19_Bound ==
    [][(C19_SetStep /\ bst.bound /\ Notifies(bst.a)) =>
        bst'.yb = IF func(bst.f, bout'.value) = NoValue THEN bst.yb
                  ELSE g_param_value_validate(TargetParamSpec,
                            func(bst.f, bout'.value)).value.data]_vars

\* X.a was set to 0 through a bound binding that adds one, and Y.b is 1.
C19_Witness ==
    /\ bout.op = "set_a" /\ bout.res = "Ok" /\ bout.value.data = "0"
    /\ bst.bound /\ bst.f = "inc" /\ Notifies(bst.a)
    /\ bst.xa = "0" /\ bst.yb = "1"

\* ------------------------------------------------------- SpecConstruct
\* Object::new of host-defined subclasses: SimpleObject, ChildObject, and a
\* type DerivedObject registered with ParentType = SimpleObject whose
\* constructed override chains up like SimpleObject's.
HostTypes == {"SimpleObject", "ChildObject", "DerivedObject"}
\* The parent class kept in the type data of T when T was registered.
get_parent_class(T) ==
    IF T = "DerivedObject" THEN "SimpleObject" ELSE ParentOf(T)

RECURSIVE constructed(_, _, _)
\* A parent_constructed that looks up the parent of the instance's class.
parent_constructed_OfInstance(T, I, d) ==
    constructed(get_parent_class(I), I, d)

\* ObjectImplExt::parent_constructed for T on an instance of type I: the
\* constructed function of the parent class in T's type data.
parent_constructed(T, I, d) == constructed(get_parent_class(T), I, d)

\* The constructed function in the class of U, called on an instance of
\* type I: for Object the foreign runtime's own, which does nothing; for a
\* host-defined type the trampoline constructed::<U>, which calls U's
\* ObjectImpl::constructed: parent_constructed, then the hook's own work.
\* The result is the hooks in the order they finished; d is the depth of
\* the calls.
constructed(U, I, d) ==
    IF d > MaxChain THEN <<"overflow">>
    ELSE IF U = "Object" THEN <<"Object">>
    ELSE parent_constructed(U, I, d + 1) \o <<U>>

\* Object::new(ty, properties) in the foreign runtime: the construct
\* properties are set (construct-name, to the given value or its default),
\* the constructed function of the class of ty is called, the other
\* properties given are set, and the instance is returned.
g_object_new_events(ty, construct_name, name) ==
    (IF ty = "ChildObject" THEN <<>>
     ELSE <<[ev |-> "set", on |-> "construct-name", v |-> construct_name]>>)
    \o [i \in 1..Len(constructed(ty, ty, 0)) |->
            [ev |-> "constructed", on |-> constructed(ty, ty, 0)[i],
             v |-> "None"]]
    \o (IF ty = "ChildObject" \/ name = "None" THEN <<>>
        ELSE <<[ev |-> "set", on |-> "name", v |-> name]>>)
    \o <<[ev |-> "return", on |-> ty, v |-> "None"]>>

InitConstruct ==
    /\ ForeignInit
    /\ made = <<>> /\ dropped = <<>> /\ weaks = <<>> /\ pc = <<>> /\ tmp = <<>>
    /\ last = NoOp
    /\ handles = <<>>
    /\ next_inst = 1
    /\ NoObject
    /\ nlist = <<>> /\ acts = <<>> /\ trace = <<>>
    /\ NoSend /\ NoBind
    /\ insts = <<>>
    /\ NoLate

ctorRest == <<foreignVars, refVars, last, castVars, objVars, extVars, sendVars,
              bindVars, lateVars>>

\* Object::new(ty, &[("construct-name", ..), ("name", ..)]); "None": the
\* property is not given.
NewSubclass(ty, construct_name, name) ==
    /\ Len(insts) < MaxInsts
    /\ insts' = Append(insts,
            [type |-> ty,
             log |-> g_object_new_events(ty, construct_name, name)])
    /\ UNCHANGED ctorRest

\* obj.set_property("name", &v) on an instance made before.
SetName(i, v) ==
    /\ i \in 1..Len(insts)
    /\ insts[i].type # "ChildObject"
    /\ Len(insts[i].log) < MaxLog
    /\ insts' = [insts EXCEPT ![i].log =
                    Append(@, [ev |-> "set", on |-> "name", v |-> v])]
    /\ UNCHANGED ctorRest

NextConstruct ==
    \/ \E ty \in HostTypes, cn \in {"None", "meh"}, n \in {"None", "a"} :
        NewSubclass(ty, cn, n)
    \/ \E i \in 1..MaxInsts, v \in {"a", "b"} : SetName(i, v)

SpecConstruct == InitConstruct /\ [][NextConstruct]_vars

\* ----------------------------------------------- claims on SpecConstruct
\* The positions in a log of the events ev on `on`.
C20_At(log, ev, on) == {k \in 1..Len(log) : log[k].ev = ev /\ log[k].on = on}
\* The host-defined types from T up to Object.
C20_HostLine(T) == Lineage(T) \cup (IF T = "DerivedObject"
                                    THEN {"SimpleObject", "Object"} ELSE {})

\* C20: for every instance of a host-defined subclass the constructed hook
\* ran exactly once, after the construct properties were set and before
\* Object::new returned; chaining up ran the hook of each ancestor class
\* exactly once, the parent's before the type's own, and ended at Object.
C20_ConstructedOnce ==
    \A i \in 1..Len(insts) :
        LET log == insts[i].log
            T == insts[i].type
        IN  /\ \A U \in C20_HostLine(T) :
                Cardinality(C20_At(log, "constructed", U)) = 1
            /\ C20_At(log, "constructed", "overflow") = {}
            /\ \A k \in C20_At(log, "constructed", T) :
                /\ \A c \in C20_At(log, "set", "construct-name") : c < k
                /\ \A r \in C20_At(log, "return", T) : k < r
                /\ \A U \in C20_HostLine(T) \ {T} :
                    \A j \in C20_At(log, "constructed", U) : j < k
            /\ Cardinality(C20_At(log, "return", T)) = 1

\* An instance of DerivedObject was made with its construct property set,
\* the hooks of Object, SimpleObject and DerivedObject ran in that order,
\* and its name was set later.
C20_Witness ==
    \E i \in 1..Len(insts) :
        /\ insts[i].type = "DerivedObject"
        /\ Len(insts[i].log) = 6
        /\ insts[i].log[1] = [ev |-> "set", on |-> "construct-name", v |-> "meh"]
        /\ insts[i].log[3].on = "SimpleObject"
        /\ insts[i].log[4].on = "DerivedObject"
        /\ insts[i].log[6].ev = "set"

\* ---------------------------------------------------------- SpecInstall
\* A subclass's class_init calls install_properties once; afterwards the
\* foreign side dispatches property reads and writes to the trampolines.

\* Every specification from here on starts with the earlier ones idle.
InitIdle ==
    /\ ForeignInit
    /\ made = <<>> /\ dropped = <<>> /\ weaks = <<>> /\ pc = <<>> /\ tmp = <<>>
    /\ last = NoOp
    /\ handles = <<>>
    /\ next_inst = 1
    /\ NoObject
    /\ nlist = <<>> /\ acts = <<>> /\ trace = <<>>
    /\ NoSend /\ NoBind /\ NoCtor

\* The names a properties array is made of.
InstallNames == {"name", "construct-name", "constructed", "child"}

\* The arrays of at most n distinct properties.
PropertyArrays(n) ==
    {a \in UNION {[1..k -> InstallNames] : k \in 0..n} :
        \A i, j \in DOMAIN a : i # j => a[i] # a[j]}

\* g_object_class_install_properties(class, n_pspecs, pspecs): pspecs[0] is
\* not used and pspecs[id] is installed under property id `id`, for every
\* id in 1..n_pspecs-1.  The array is a sequence here, its element 0 at
\* position 1.
g_object_class_install_properties(n_pspecs, pspecs) ==
    [id \in 1..(n_pspecs - 1) |-> pspecs[id + 1]]

install_properties_NoNull(properties) ==
    IF properties = <<>> THEN <<>>
    ELSE g_object_class_install_properties(Len(properties), properties)

\* install_properties: nothing for an empty array; else a null pointer is
\* pushed before the parameter specifications and the whole is installed.
install_properties(properties) ==
    IF properties = <<>> THEN <<>>
    ELSE LET pspecs_ptrs == <<NULL>> \o properties
         IN  g_object_class_install_properties(Len(pspecs_ptrs), pspecs_ptrs)

\* The get and set trampolines: the index they hand to
\* ObjectImpl::get_property / set_property, (id - 1) as usize.  The foreign
\* side calls them with installed ids only, which are 1 or more.
trampoline_index_Id(id) == id

trampoline_index(id) == id - 1

\* The host implementation's `&PROPERTIES[id]`: the array is indexed from 0.
PROPERTIES_at(properties, index) ==
    IF index + 1 \in 1..Len(properties) THEN properties[index + 1]
    ELSE "panic"

NoPOut == [op |-> "none", name |-> "", id |-> 0, index |-> 0, prop |-> ""]

InitInstall ==
    /\ InitIdle
    /\ LateIdle("class")
    /\ klass = [inited |-> FALSE, properties |-> <<>>, installed |-> <<>>]
    /\ pout = NoPOut

\* class_init: klass.install_properties(&properties)
ClassInit(properties) ==
    /\ ~klass.inited
    /\ klass' = [inited |-> TRUE, properties |-> properties,
                 installed |-> install_properties(properties)]
    /\ pout' = NoPOut
    /\ UNCHANGED classRest

\* g_object_get_property / g_object_set_property of the property `name`:
\* the foreign side finds the id the parameter specification was installed
\* under and calls the class's trampoline with it.
Access(op, name) ==
    /\ klass.inited
    /\ \E id \in DOMAIN klass.installed :
        /\ klass.installed[id] = name
        /\ pout' = [op |-> op, name |-> name, id |-> id,
                    index |-> trampoline_index(id),
                    prop |-> PROPERTIES_at(klass.properties,
                                           trampoline_index(id))]
    /\ UNCHANGED <<klass, classRest>>

NextInstall ==
    \/ \E properties \in PropertyArrays(MaxProps) : ClassInit(properties)
    \/ \E op \in {"get", "set"}, name \in InstallNames : Access(op, name)

SpecInstall == InitInstall /\ [][NextInstall]_vars

\* ------------------------------------------------- claims on SpecInstall
\* C21: the property at array index i is registered under foreign property
\* id i+1, for every i from 0 to len-1, and under no other id, id 0 staying
\* reserved; a trampoline called for a property hands the host
\* implementation the index id-1, which is the array index of the property
\* being accessed.
C21_IndexIsArrayIndex ==
    /\ klass.inited =>
        /\ DOMAIN klass.installed = 1..Len(klass.properties)
        /\ \A i \in 0..(Len(klass.properties) - 1) :
            klass.installed[i + 1] = klass.properties[i + 1]
    /\ pout.op # "none" =>
        /\ pout.id # 0
        /\ pout.index = pout.id - 1
        /\ pout.prop = pout.name

\* The last of three installed properties was written through the
\* trampoline.
C21_Witness ==
    /\ Len(klass.properties) = 3
    /\ pout.op = "set"
    /\ pout.id = 3
    /\ pout.index = 2
    /\ pout.name = klass.properties[3]

\* ------------------------------------------------------------- SpecType
\* Questions asked of Type values; nothing is registered or changed.

\* The types asked about: the ones above, the fundamental interface type
\* (Type::BASE_INTERFACE) and DerivedObject.
TypeNodes == Types \cup {"BaseInterface", "DerivedObject"}

NoTOut == [op |-> "none", a |-> "Invalid", b |-> "Invalid", res |-> FALSE]

InitType ==
    /\ InitIdle
    /\ LateIdle("type")
    /\ tout = NoTOut

\* a.is_a(&b)
IsA(a, b) ==
    /\ tout' = [op |-> "is_a", a |-> a, b |-> b, res |-> is_a(a, b)]
    /\ UNCHANGED typeRest

\* Raw ids. The fundamental ones are multiples of four up to G_TYPE_VARIANT;
\* the table has the rows of the fundamental types the model's registry
\* knows (the match arms of the others are alike), and the model takes the
\* first MaxOther ids beyond G_TYPE_VARIANT for registered types.
Fundamentals ==
    << <<0, "Invalid">>, <<4, "Unit">>, <<8, "BaseInterface">>,
       <<20, "Bool">>, <<24, "I32">>, <<64, "String">>,
       <<80, "BaseObject">> >>
G_TYPE_VARIANT == 84
RawIds ==
    {Fundamentals[i][1] : i \in DOMAIN Fundamentals}
        \cup {G_TYPE_VARIANT + 4 * k : k \in 1..MaxOther}

\* types.rs: struct Type(GType). A value is its field.
types_Type == [raw : RawIds]
types_from_glib(val) == [raw |-> val]
types_to_glib(self) == self.raw

\* type_.rs: enum Type, a variant for each fundamental type and Other(usize).
\* A value is its variant and, for Other, the payload (0 for the rest).
Variants == {Fundamentals[i][2] : i \in DOMAIN Fundamentals}
type__Type ==
    [tag : Variants, x : {0}] \cup [tag : {"Other"}, x : RawIds]
type__from_glib(val) ==
    IF \E i \in DOMAIN Fundamentals : Fundamentals[i][1] = val
    THEN LET i == CHOOSE i \in DOMAIN Fundamentals : Fundamentals[i][1] = val
         IN  [tag |-> Fundamentals[i][2], x |-> 0]
    ELSE [tag |-> "Other", x |-> val]
type__to_glib(self) ==
    IF self.tag = "Other" THEN self.x
    ELSE LET i == CHOOSE i \in DOMAIN Fundamentals :
                      Fundamentals[i][2] = self.tag
         IN  Fundamentals[i][1]

\* from_glib and to_glib of the Type of module m.
from_glib(m, val) ==
    IF m = "types" THEN types_from_glib(val) ELSE type__from_glib(val)
to_glib(m, self) ==
    IF m = "types" THEN types_to_glib(self) ELSE type__to_glib(self)
TypeValues(m) == IF m = "types" THEN types_Type ELSE type__Type
\* #[derive(PartialEq)] on either Type: same variant, same fields.
Type_eq(a, b) == a = b

\* a == b for two Types of module m, with the raw id of each and a taken
\* through to_glib and back.
TypeEq(m, a, b) ==
    /\ tout' = [op |-> "eq", m |-> m, a |-> a, b |-> b,
                res |-> Type_eq(a, b),
                ga |-> to_glib(m, a), gb |-> to_glib(m, b),
                back |-> from_glib(m, to_glib(m, a))]
    /\ UNCHANGED typeRest

\* The raw id v taken through from_glib of module m and back.
TypeFromRaw(m, v) ==
    /\ tout' = [op |-> "from_glib", m |-> m, a |-> v, b |-> from_glib(m, v),
                res |-> TRUE, back |-> to_glib(m, from_glib(m, v))]
    /\ UNCHANGED typeRest

TypeModules == {"types", "type_"}

NextType ==
    \/ \E a, b \in TypeNodes : IsA(a, b)
    \/ \E m \in TypeModules : \E a, b \in TypeValues(m) : TypeEq(m, a, b)
    \/ \E m \in TypeModules, v \in RawIds : TypeFromRaw(m, v)

SpecType == InitType /\ [][NextType]_vars

\* ---------------------------------------------------- claims on SpecType
\* The lineage of t as the claim has it: its ancestors and the interfaces
\* it implements.
C22_Lineage(t) ==
    (Lineage(t) \ {t}) \cup UNION {InterfacesOf(c) : c \in Lineage(t)}

Copies == 1..MaxCopies
AnyTypes == {"AnyValue", "AnySendValue"}
name_templ(ty) == IF ty = "AnyValue" THEN "AnyValueRs-" ELSE "AnySendValueRs-"
\* format!($name_templ, idx)
type_name(ty, idx) == [templ |-> name_templ(ty), idx |-> idx]

\* A registered type is written as its name, the invalid type as a name no
\* type has.
INVALID == [templ |-> "<invalid>", idx |-> 0]

\* g_type_from_name: the type registered under the name, INVALID if none.
g_type_from_name(reg, name) == IF name \in reg THEN name ELSE INVALID

\* g_boxed_type_register_static: a name the registry holds is refused with
\* a logged assertion and the invalid type returned.
g_boxed_type_register_static(reg, name) ==
    IF g_type_from_name(reg, name) # INVALID
    THEN [reg |-> reg, type |-> INVALID]
    ELSE [reg |-> reg \cup {name}, type |-> name]

RIdle == [st |-> "idle", copy |-> 0, ty |-> "", idx |-> 0]

InitReg ==
    /\ InitIdle
    /\ LateIdle("reg")
    /\ registry = {}
    /\ ONCE = [k \in Copies, ty \in AnyTypes |-> "new"]
    /\ TYPE = [k \in Copies, ty \in AnyTypes |-> INVALID]
    /\ rpc = [t \in Threads |-> RIdle]
    /\ rlog = [tried |-> [k \in Copies, ty \in AnyTypes |-> 0],
               returned |-> [k \in Copies, ty \in AnyTypes |-> {}]]

\* Thread t calls static_type() of ty in copy k of the crate.  With the
\* Once completed the call returns from_glib(TYPE); with the Once new the
\* thread enters the closure; while another thread runs the closure
\* call_once blocks.
StaticType(t, k, ty) ==
    /\ rpc[t].st = "idle"
    /\ ONCE[k, ty] # "running"
    /\ IF ONCE[k, ty] = "done"
       THEN /\ rlog' = [rlog EXCEPT !.returned[k, ty] = @ \cup {TYPE[k, ty]}]
            /\ UNCHANGED <<ONCE, rpc>>
       ELSE /\ ONCE' = [ONCE EXCEPT ![k, ty] = "running"]
            /\ rpc' = [rpc EXCEPT ![t] =
                        [st |-> "loop", copy |-> k, ty |-> ty, idx |-> 0]]
            /\ UNCHANGED rlog
    /\ UNCHANGED <<registry, TYPE, regRest>>

\* One turn of the loop: break with the name if the registry does not hold
\* it, else idx += 1.
Loop(t) ==
    /\ rpc[t].st = "loop"
    /\ rpc' = [rpc EXCEPT ![t] =
            IF g_type_from_name(registry, type_name(rpc[t].ty, rpc[t].idx))
                    = INVALID
            THEN [@ EXCEPT !.st = "register"]
            ELSE [@ EXCEPT !.idx = @ + 1]]
    /\ UNCHANGED <<registry, ONCE, TYPE, rlog, regRest>>

\* TYPE = g_boxed_type_register_static(type_name, ..); the closure ends,
\* the Once is completed and static_type() returns from_glib(TYPE).
Register(t) ==
    /\ rpc[t].st = "register"
    /\ \E R \in {g_boxed_type_register_static(registry,
                        type_name(rpc[t].ty, rpc[t].idx))} :
        /\ registry' = R.reg
        /\ TYPE' = [TYPE EXCEPT ![rpc[t].copy, rpc[t].ty] = R.type]
        /\ rlog' = [rlog EXCEPT
                !.tried[rpc[t].copy, rpc[t].ty] = @ + 1,
                !.returned[rpc[t].copy, rpc[t].ty] = @ \cup {R.type}]
    /\ ONCE' = [ONCE EXCEPT ![rpc[t].copy, rpc[t].ty] = "done"]
    /\ rpc' = [rpc EXCEPT ![t] = RIdle]
    /\ UNCHANGED regRest

NextReg ==
    \/ \E t \in Threads, k \in Copies, ty \in AnyTypes : StaticType(t, k, ty)
    \/ \E t \in Threads : Loop(t)
    \/ \E t \in Threads : Register(t)

SpecReg == InitReg /\ [][NextReg]_vars

\* ----------------------------------------------------- claims on SpecReg
\* C23: static_type() of AnyValue, and of AnySendValue, registers its type
\* at most once; every call returns the same valid Type; the names in the
\* registry are the ones with the smallest indices, none skipped; and no
\* two of the host types, of whichever copy of the crate, share a Type.
C23_RegisteredOnce ==
    /\ \A k \in Copies, ty \in AnyTypes :
        /\ rlog.tried[k, ty] <= 1
        /\ Cardinality(rlog.returned[k, ty]) <= 1
        /\ INVALID \notin rlog.returned[k, ty]
    /\ \A name \in registry :
        name.idx > 0 => [name EXCEPT !.idx = @ - 1] \in registry
    /\ \A k1, k2 \in Copies, ty1, ty2 \in AnyTypes :
        <<k1, ty1>> # <<k2, ty2>> =>
            rlog.returned[k1, ty1] \cap rlog.returned[k2, ty2] = {}

\* ---------------------------------------------------------- SpecClosure
\* One instance; signal::connect hands boxed closures to the foreign side,
\* which invokes them during emissions and releases them through the
\* destroy callback.  A handler may disconnect handlers, itself included,
\* and connect new ones while it runs.

\* destroy_closure that keeps the box.
destroy_closure_Forget(b) == b

\* destroy_closure: Box::from_raw(ptr), dropped at once: the box is freed.
destroy_closure(b) == [b EXCEPT !.freed = @ + 1]

\* The closure of a handler is finalized: its destroy notifier, if it was
\* given one, is called with the data pointer.
closure_finalize(b) ==
    [(IF b.destroy THEN destroy_closure(b) ELSE b) EXCEPT !.st = "gone"]

\* g_signal_connect_data(instance, signal, trampoline, data, destroy, 0)
\* with a box made just before as data: for a signal the instance has, a
\* handler is connected and its id returned; for another name a warning is
\* logged, no closure is made of the data and 0 is returned.  The id of a
\* handler is the position of its box.
g_signal_connect_data(boxes, valid, destroy) ==
    [boxes |-> Append(boxes,
                [st |-> IF valid THEN "connected" ELSE "unconnected",
                 destroy |-> destroy, freed |-> 0, held |-> FALSE,
                 calls |-> 0, late |-> FALSE]),
     handle |-> IF valid THEN Len(boxes) + 1 ELSE 0]

\* signal::connect: g_signal_connect_data with destroy_closure as the
\* destroy callback, then assert!(handle > 0).
connect(boxes, valid) ==
    LET Result(R) == [boxes |-> R.boxes, handle |-> R.handle,
                      panic |-> ~(R.handle > 0)]
    IN  Result(g_signal_connect_data(boxes, valid, TRUE))

\* g_signal_handler_disconnect on the boxes: a connected handler is taken
\* off the instance; its closure is finalized unless an emission holds the
\* handler, and then when the emission lets go of it.  Another id is only
\* logged.
handler_disconnect(boxes, id) ==
    IF id \in DOMAIN boxes /\ boxes[id].st = "connected"
    THEN [boxes EXCEPT ![id] = IF @.held
                                THEN [@ EXCEPT !.st = "disconnected"]
                                ELSE closure_finalize(@)]
    ELSE boxes

NoEmission == [on |-> FALSE, max |-> 0, pos |-> 0, run |-> 0]

InitClosure ==
    /\ InitIdle
    /\ LateIdle("closure")
    /\ cbox = <<>>
    /\ cemit = NoEmission
    /\ calive = TRUE

\* signal::connect(instance, name, trampoline, Box::into_raw(f)), by the
\* program or by a handler that runs; valid: the instance has the signal.
SigConnect(valid) ==
    /\ calive
    /\ Len(cbox) < MaxBoxes
    /\ cbox' = connect(cbox, valid).boxes
    /\ UNCHANGED <<cemit, calive, closureRest>>

\* obj.disconnect(id), by the program or by a handler that runs.
SigDisconnect(id) ==
    /\ calive
    /\ cbox' = handler_disconnect(cbox, id)
    /\ UNCHANGED <<cemit, calive, closureRest>>

\* An emission starts: the handlers connected by now take part.
EmitStart ==
    /\ calive
    /\ ~cemit.on
    /\ cemit' = [on |-> TRUE, max |-> Len(cbox), pos |-> 1, run |-> 0]
    /\ UNCHANGED <<cbox, calive, closureRest>>

\* The next connected handler of the emission, 0 if there is none left.
NextHandler ==
    IF \E h \in cemit.pos..cemit.max : cbox[h].st = "connected"
    THEN CHOOSE h \in cemit.pos..cemit.max :
            /\ cbox[h].st = "connected"
            /\ \A g \in cemit.pos..(h - 1) : cbox[g].st # "connected"
    ELSE 0

\* The emission holds the next handler and invokes its trampoline, which
\* reads the box.
EmitInvoke ==
    /\ cemit.on /\ cemit.run = 0
    /\ NextHandler # 0
    /\ cbox' = [cbox EXCEPT ![NextHandler] =
                    [@ EXCEPT !.held = TRUE, !.calls = 1,
                              !.late = @ \/ cbox[NextHandler].freed > 0]]
    /\ cemit' = [cemit EXCEPT !.run = NextHandler]
    /\ UNCHANGED <<calive, closureRest>>

\* The handler that runs returns.
EmitReturn ==
    /\ cemit.on /\ cemit.run # 0
    /\ cemit' = [cemit EXCEPT !.run = 0, !.pos = cemit.run + 1]
    /\ UNCHANGED <<cbox, calive, closureRest>>

\* The emission lets go of a handler it held and that does not run; the
\* closure of a handler disconnected meanwhile is finalized.
EmitRelease(h) ==
    /\ cemit.on /\ cemit.run # h
    /\ h \in DOMAIN cbox /\ cbox[h].held
    /\ cbox' = [cbox EXCEPT ![h] =
                    IF @.st = "disconnected"
                    THEN closure_finalize([@ EXCEPT !.held = FALSE])
                    ELSE [@ EXCEPT !.held = FALSE]]
    /\ UNCHANGED <<cemit, calive, closureRest>>

\* The emission returns: no handler is left and none is held.
EmitEnd ==
    /\ cemit.on /\ cemit.run = 0
    /\ NextHandler = 0
    /\ \A h \in DOMAIN cbox : ~cbox[h].held
    /\ cemit' = NoEmission
    /\ UNCHANGED <<cbox, calive, closureRest>>

\* The last reference to the instance is dropped (an emission holds one):
\* the instance is disposed of and its handlers are destroyed.
Finalize ==
    /\ calive
    /\ ~cemit.on
    /\ cbox' = [h \in DOMAIN cbox |->
                    IF cbox[h].st = "connected" THEN closure_finalize(cbox[h])
                    ELSE cbox[h]]
    /\ calive' = FALSE
    /\ UNCHANGED <<cemit, closureRest>>

NextClosure ==
    \/ \E valid \in BOOLEAN : SigConnect(valid)
    \/ \E id \in 1..MaxBoxes : SigDisconnect(id)
    \/ EmitStart
    \/ EmitInvoke
    \/ EmitReturn
    \/ \E h \in 1..MaxBoxes : EmitRelease(h)
    \/ EmitEnd
    \/ Finalize

SpecClosure == InitClosure /\ [][NextClosure]_vars

self_v == Val("SimpleObject", "SimpleObject", "self")
\* What mem::zeroed() leaves in a slot of the array.
zeroed == Val("Invalid", "None", "zeroed")
\* What lies behind the end of the vector handed to the foreign side.
beyond == Val("Invalid", "None", "beyond")

RECURSIVE fill(_, _, _)
\* for (i, arg) in args.iter().enumerate() { s_args[i+1] = arg.to_value() }
\* from the i-th argument on; slot k of the array is position k + 1 here.
fill(s_args, args, i) ==
    IF i >= Len(args) THEN s_args
    ELSE fill([s_args EXCEPT ![(i + 1) + 1] = to_value(args[i + 1])],
              args, i + 1)

\* An argument vector whose slice ends one slot early.
argument_vector_ShortSlice(args) ==
    IF Len(args) < 10
    THEN SubSeq(fill([[k \in 1..10 |-> zeroed] EXCEPT ![1] = self_v], args, 0),
                1, Len(args))
    ELSE <<self_v>> \o [k \in 1..Len(args) |-> to_value(args[k])]

\* The argument vector of emit: for fewer than 10 arguments the first
\* args.len()+1 slots of a zeroed array of 10, else a vector the instance
\* and then the arguments are pushed to.
argument_vector(args) ==
    IF Len(args) < 10
    THEN SubSeq(fill([[k \in 1..10 |-> zeroed] EXCEPT ![1] = self_v], args, 0),
                1, Len(args) + 1)
    ELSE <<self_v>> \o [k \in 1..Len(args) |-> to_value(args[k])]

\* g_signal_emitv(instance_and_params, ..): the handlers are handed the
\* n_params + 1 values the pointer points to.
instance_and_params(vector, n_params) ==
    [k \in 1..(n_params + 1) |->
        IF k <= Len(vector) THEN vector[k] ELSE beyond]

\* The arguments emit is called with: Strings "a" and "b".
EmitArgValues ==
    {SetValue_to_value("String", "None", d) : d \in {"a", "b"}}
\* The argument lists of length n tried: one value up to some position,
\* the other value after it.
EmitArgSeqs(n) ==
    {[i \in 1..n |-> IF i <= k THEN x ELSE y] :
        k \in 0..n, x \in EmitArgValues, y \in EmitArgValues}

NoAOut == [op |-> "none", n_params |-> 0, args |-> <<>>, res |-> "Ok",
           received |-> <<>>]

InitArgs ==
    /\ InitIdle
    /\ LateIdle("arg")
    /\ aout = NoAOut

\* obj.emit(signal, args) on a signal with n_params parameters: the count
\* is checked, then the vector is built and handed to g_signal_emitv.
EmitVector(n_params, args) ==
    /\ aout' = IF n_params # Len(args)
               THEN [op |-> "emit", n_params |-> n_params, args |-> args,
                     res |-> ArgumentCountMismatch, received |-> <<>>]
               ELSE [op |-> "emit", n_params |-> n_params, args |-> args,
                     res |-> "Ok",
                     received |-> instance_and_params(argument_vector(args),
                                                      n_params)]
    /\ UNCHANGED argRest

NextArgs ==
    \E n \in 0..MaxArity, m \in 0..MaxArity :
        /\ m \in {n, n + 1}
        /\ \E args \in EmitArgSeqs(n) : EmitVector(m, args)

SpecArgs == InitArgs /\ [][NextArgs]_vars

\* ---------------------------------------------------- claims on SpecArgs
\* C26: for an accepted emit with n arguments, n = 9 and n = 10 included,
\* the handlers receive exactly n+1 values: the emitting instance first,
\* then the n arguments in the caller's order.
C26_InstanceThenArgs ==
    (aout.op = "emit" /\ aout.res = "Ok") =>
        /\ Len(aout.received) = Len(aout.args) + 1
        /\ aout.received[1] = self_v
        /\ \A i \in 1..Len(aout.args) :
            aout.received[i + 1] = to_value(aout.args[i])

\* An emit with ten arguments, the last different from the first, was
\* accepted.
C26_Witness ==
    /\ aout.op = "emit" /\ aout.res = "Ok"
    /\ Len(aout.args) = 10
    /\ aout.args[1] # aout.args[10]
    /\ Len(aout.received) = 11

\* ---------------------------------------------------------- SpecBinding
\* Binding::bind_property between two of three objects, and the getters of
\* the Binding it returns.
BoundObjects == {"X", "Y", "Z"}
BoundProperties == {"a", "b"}

\* g_object_bind_property(source, source_property, target,
\* target_property, flags): the GBinding keeps the four.
g_object_bind_property(source, source_property, target, target_property) ==
    [built |-> TRUE, source |-> source, source_property |-> source_property,
     target |-> target, target_property |-> target_property]

\* The getters of the foreign binding.
g_binding_get_source(b) == b.source
g_binding_get_target(b) == b.target
g_binding_get_source_property(b) == b.source_property
g_binding_get_target_property(b) == b.target_property

\* BindingExt: each getter wraps what the foreign getter it calls returns.
get_source(b) == g_binding_get_target(b)
get_source_property(b) == g_binding_get_source_property(b)
get_target(b) == g_binding_get_target(b)
get_target_property(b) == g_binding_get_target_property(b)

NoBinding == [built |-> FALSE, source |-> "", source_property |-> "",
              target |-> "", target_property |-> ""]
NoGOut == [op |-> "none", res |-> ""]

InitBinding ==
    /\ InitIdle
    /\ LateIdle("getter")
    /\ gbinding = NoBinding
    /\ gout = NoGOut

\* Binding::bind_property(&S, p, &T, q, flags)
BindProperty(S, p, T, q) ==
    /\ ~gbinding.built
    /\ gbinding' = g_object_bind_property(S, p, T, q)
    /\ gout' = NoGOut
    /\ UNCHANGED getterRest

GetSource ==
    /\ gbinding.built
    /\ gout' = [op |-> "get_source", res |-> get_source(gbinding)]
    /\ UNCHANGED <<gbinding, getterRest>>

GetSourceProperty ==
    /\ gbinding.built
    /\ gout' = [op |-> "get_source_property",
                res |-> get_source_property(gbinding)]
    /\ UNCHANGED <<gbinding, getterRest>>

GetTarget ==
    /\ gbinding.built
    /\ gout' = [op |-> "get_target", res |-> get_target(gbinding)]
    /\ UNCHANGED <<gbinding, getterRest>>

GetTargetProperty ==
    /\ gbinding.built
    /\ gout' = [op |-> "get_target_property",
                res |-> get_target_property(gbinding)]
    /\ UNCHANGED <<gbinding, getterRest>>

NextBinding ==
    \/ \E S \in BoundObjects, T \in BoundObjects :
       \E p \in BoundProperties, q \in BoundProperties : BindProperty(S, p, T, q)
    \/ GetSource
    \/ GetSourceProperty
    \/ GetTarget
    \/ GetTargetProperty

SpecBinding == InitBinding /\ [][NextBinding]_vars

\* ------------------------------------------------- claims on SpecBinding
\* C27: for a Binding from property p of S to property q of T, S different
\* from T, get_source returns S, get_target returns T, get_source_property
\* returns p and get_target_property returns q.
C27_Getters ==
    (gbinding.built /\ gbinding.source # gbinding.target) =>
        /\ gout.op = "get_source" => gout.res = gbinding.source
        /\ gout.op = "get_target" => gout.res = gbinding.target
        /\ gout.op = "get_source_property" =>
                gout.res = gbinding.source_property
        /\ gout.op = "get_target_property" =>
                gout.res = gbinding.target_property

\* ------------------------------------------------------------ SpecRace
\* SendWeakRef::clone as the two foreign calls WeakRef::clone makes, among
\* the drops of the strong handles on the thread that owns them. Object is
\* neither Send nor Sync, so every handle of an instance, and the WeakRef
\* its SendWeakRef is made from, live on the thread that made the instance.

\* The thread of the g_object_unref that took p's count to zero: th if this
\* one did (fin is the destruction counts after it), else as before.
final_release(rel, fin_before, fin_after, p, th) ==
    IF fin_after[p] > fin_before[p] THEN [rel EXCEPT ![p] = th] ELSE rel

\* WeakRef::clone after g_weak_ref_get returned o from slot w:
\* g_weak_ref_init of the new slot c with o, then g_object_unref(o) unless o
\* is NULL.
WeakRef_clone_finish(rc, fin, wk, w, c, o) ==
    LET W == [wk EXCEPT ![c] = [used |-> TRUE, ptr |-> o,
                                target |-> wk[w].target]]
    IN  IF o # NULL THEN g_object_unref(rc, fin, W, o)
        ELSE [rc |-> rc, fin |-> fin, wk |-> W]

\* Threads between the two calls of a clone.
Cloning == {t \in Threads : rpos[t] = "clone"}
\* A slot is left for one more weak reference, those the clones under way
\* will take counted.
RaceFree == Cardinality(FreeWeaks) > Cardinality(Cloning)

\* What the actions on the instance and its weak slots leave alone.
raceKeep == <<last, pc, tmp, castVars, objVars, extVars, bindVars, insts,
              classVars, typeVars, regVars, closureVars, argVars, getterVars,
              futureVars>>

InitRace ==
    /\ ForeignInit
    /\ made = [p \in Ptrs |-> 0]
    /\ dropped = [p \in Ptrs |-> 0]
    /\ weaks = [w \in WeakIds |-> NoWeak]
    /\ pc = [t \in Threads |-> "idle"]
    /\ tmp = [t \in Threads |-> NoTmp]
    /\ last = NoOp
    /\ handles = <<>>
    /\ next_inst = 1
    /\ NoObject
    /\ nlist = <<>> /\ acts = <<>> /\ trace = <<>>
    /\ sends = [w \in WeakIds |-> NotSend]
    /\ THREAD_ID = [t \in Threads |-> -1]
    /\ COUNTER = 0
    /\ sout = NoSOut
    /\ NoBind /\ NoCtor /\ LateIdle("race")
    /\ owner = [p \in Ptrs |-> 0]
    /\ rpos = [t \in Threads |-> "idle"]
    /\ rtmp = [t \in Threads |-> NoTmp]
    /\ released = [p \in Ptrs |-> 0]

\* Object::new on thread t.
RaceNew(t) ==
    /\ next_ptr <= MaxPtrs
    /\ LET p == next_ptr
           N == g_object_newv(ref_count, floating, p, "Object")
           R == Object_new_wrap(N.rc, N.fl, p)
       IN  /\ next_ptr' = p + 1
           /\ rtype' = [rtype EXCEPT ![p] = "Object"]
           /\ ref_count' = R.rc
           /\ floating' = R.fl
           /\ made' = [made EXCEPT ![p] = @ + 1]
           /\ owner' = [owner EXCEPT ![p] = t]
    /\ UNCHANGED <<finalized, dropped, weaks, sendVars, raceKeep, rpos, rtmp,
                   released>>

\* Clone of a handle of p, on the thread the handles live on.
RaceCloneHandle(t, p) ==
    /\ owner[p] = t
    /\ nhandles(p) > 0
    /\ made[p] < MaxHandles
    /\ LET R == clone(ref_count, floating,
                      [ptr |-> p, stype |-> "Object", inst |-> 0])
       IN  /\ ref_count' = R.rc
           /\ floating' = R.fl
    /\ made' = [made EXCEPT ![p] = @ + 1]
    /\ UNCHANGED <<next_ptr, rtype, finalized, dropped, weaks, sendVars,
                   raceKeep, raceVars>>

\* Drop of a handle of p, on the thread the handles live on.
RaceDrop(t, p) ==
    /\ owner[p] = t
    /\ nhandles(p) > 0
    /\ LET R == ObjectRef_unref(ref_count, finalized, weaks, p)
       IN  /\ ref_count' = R.rc
           /\ finalized' = R.fin
           /\ weaks' = R.wk
           /\ released' = final_release(released, finalized, R.fin, p, t)
    /\ dropped' = [dropped EXCEPT ![p] = @ + 1]
    /\ UNCHANGED <<next_ptr, rtype, floating, made, sendVars, raceKeep,
                   owner, rpos, rtmp>>

\* obj.downgrade() on the thread the handles live on.
RaceDowngrade(t, p) ==
    /\ owner[p] = t
    /\ nhandles(p) > 0
    /\ RaceFree
    /\ weaks' = [weaks EXCEPT ![NewWeak] =
                    [used |-> TRUE, ptr |-> p, target |-> p]]
    /\ UNCHANGED <<foreignVars, made, dropped, sendVars, raceKeep, raceVars>>

\* SendWeakRef::from(weak) on the thread the WeakRef lives on.
RaceFrom(t, w) ==
    /\ weaks[w].target # NULL
    /\ owner[weaks[w].target] = t
    /\ SendFrom(t, w)

\* send.clone() on thread t, first call: g_weak_ref_get on the slot.
RaceCloneGet(t, w) ==
    /\ rpos[t] = "idle"
    /\ sends[w].is
    /\ RaceFree
    /\ LET R == g_weak_ref_get(ref_count, weaks, w)
       IN  /\ ref_count' = R.rc
           /\ rtmp' = [rtmp EXCEPT ![t] = [ptr |-> R.ptr, w |-> w]]
    /\ rpos' = [rpos EXCEPT ![t] = "clone"]
    /\ UNCHANGED <<next_ptr, rtype, floating, finalized, made, dropped, weaks,
                   sendVars, raceKeep, owner, released>>

\* send.clone() on thread t, the rest: the new slot, the release of the
\* reference the first call took, and a copy of the origin.
RaceCloneFinish(t) ==
    /\ rpos[t] = "clone"
    /\ LET c == NewWeak
           w == rtmp[t].w
           U == WeakRef_clone_finish(ref_count, finalized, weaks, w, c,
                                     rtmp[t].ptr)
       IN  /\ ref_count' = U.rc
           /\ finalized' = U.fin
           /\ weaks' = U.wk
           /\ released' = IF rtmp[t].ptr = NULL THEN released
                          ELSE final_release(released, finalized, U.fin,
                                             rtmp[t].ptr, t)
           /\ sends' = [sends EXCEPT ![c] = sends[w]]
           /\ sout' = [NoSOut EXCEPT !.op = "clone", !.thread = t,
                                     !.slot = w, !.new = c]
    /\ rpos' = [rpos EXCEPT ![t] = "idle"]
    /\ rtmp' = [rtmp EXCEPT ![t] = NoTmp]
    /\ UNCHANGED <<next_ptr, rtype, floating, made, dropped, THREAD_ID,
                   COUNTER, raceKeep, owner>>

\* drop(send) on thread t; a slot a clone is reading is borrowed by it.
RaceSendDrop(t, w) ==
    /\ \A u \in Cloning : rtmp[u].w # w
    /\ SendDrop(t, w)

NextRace ==
    \/ \E t \in Threads : RaceNew(t)
    \/ \E t \in Threads, p \in Ptrs : RaceCloneHandle(t, p)
    \/ \E t \in Threads, p \in Ptrs : RaceDrop(t, p)
    \/ \E t \in Threads, p \in Ptrs : RaceDowngrade(t, p)
    \/ \E t \in Threads, w \in WeakIds : RaceFrom(t, w)
    \/ \E t \in Threads, w \in WeakIds : RaceCloneGet(t, w)
    \/ \E t \in Threads : RaceCloneFinish(t)
    \/ \E t \in Threads, w \in WeakIds : RaceSendDrop(t, w)

SpecRace == InitRace /\ [][NextRace]_vars

\* ---------------------------------------------------- claims on SpecRace
\* C28: cloning or dropping a SendWeakRef on a thread other than its origin
\* never destroys the target there: whatever the interleaving of the clone
\* with the drops of the strong handles on the origin thread, the final
\* release of every instance happens on the thread its handles live on.
C28_ReleasedAtHome ==
    \A p \in Ptrs : released[p] # 0 => released[p] = owner[p]

\* ----------------------------------------------------------- SpecFuture
\* SourceFuture: a future around a source of the main loop. The source and
\* the oneshot channel are foreign to source_futures.rs; a source is made by
\* create_source holding one reference, the context it is attached to holds
\* another until the source is destroyed, and a source whose callback
\* returns Continue(false), as the callbacks of this file do after sending,
\* is destroyed by the loop.
Futures == 1..MaxFutures
FutureValues == {"a", "b"}

\* SourceFuture::new(create_source): the fields, and for the model whether
\* the future was dropped, its polls that returned and that it was Ready.
SourceFuture_new ==
    [create_source |-> TRUE, source |-> FALSE, dropped |-> FALSE,
     polls |-> 0, resolved |-> FALSE]
\* No source yet: nothing created, the channel not made.
NoSource ==
    [created |-> 0, attached |-> 0, state |-> "none", destroyed |-> 0,
     refs |-> 0, chan |-> "none", value |-> "none"]

\* create_source(send): a new source that keeps the sender.
create_source(S) ==
    [S EXCEPT !.created = @ + 1, !.refs = 1, !.state = "new",
              !.chan = "open"]
\* s.attach(Some(&main_context))
g_source_attach(S) ==
    [S EXCEPT !.attached = @ + 1, !.refs = @ + 1, !.state = "attached"]
\* g_source_destroy: detaches an attached source, once.
g_source_destroy(S) ==
    IF S.state = "attached"
    THEN [S EXCEPT !.state = "destroyed", !.destroyed = @ + 1,
                   !.refs = @ - 1]
    ELSE S
\* Drop for Source: g_source_unref.
g_source_unref(S) == [S EXCEPT !.refs = @ - 1]
\* receiver.poll(ctx)
receiver_poll(S) ==
    IF S.chan = "sent" THEN [res |-> "Ready", value |-> S.value]
    ELSE IF S.chan = "open" THEN [res |-> "Pending", value |-> "none"]
    ELSE [res |-> "Err", value |-> "none"]

\* The first part of poll with the closure left in place.
poll_create_KeepsClosure(F, S, is_owner) ==
    IF ~F.create_source THEN [F |-> F, S |-> S, panic |-> FALSE]
    ELSE IF ~is_owner THEN [F |-> F, S |-> S, panic |-> TRUE]
    ELSE [F |-> [F EXCEPT !.source = TRUE],
          S |-> g_source_attach(create_source(S)), panic |-> FALSE]

\* poll, first part: create_source is taken; if it was there the thread
\* must own the thread-default context (else the assertion panics), the
\* source is created with the sender of a new channel and attached.
poll_create(F, S, is_owner) ==
    IF ~F.create_source THEN [F |-> F, S |-> S, panic |-> FALSE]
    ELSE IF ~is_owner
    THEN [F |-> [F EXCEPT !.create_source = FALSE], S |-> S, panic |-> TRUE]
    ELSE [F |-> [F EXCEPT !.create_source = FALSE, !.source = TRUE],
          S |-> g_source_attach(create_source(S)), panic |-> FALSE]

\* poll, second part: the receiver is polled (unwrap panics without one);
\* Ready takes the source out of the future and drops it.
poll_receive(F, S) ==
    IF ~F.source THEN [F |-> F, S |-> S, res |-> "panic", value |-> "none"]
    ELSE LET R == receiver_poll(S)
         IN  IF R.res = "Err"
             THEN [F |-> F, S |-> S, res |-> "panic", value |-> "none"]
             ELSE IF R.res = "Ready"
             THEN [F |-> [F EXCEPT !.source = FALSE, !.resolved = TRUE,
                                   !.polls = @ + 1],
                   S |-> g_source_unref([S EXCEPT !.chan = "taken"]),
                   res |-> "Ready", value |-> R.value]
             ELSE [F |-> [F EXCEPT !.polls = @ + 1], S |-> S,
                   res |-> "Pending", value |-> "none"]

\* Future::poll for SourceFuture.
poll(F, S, is_owner) ==
    LET C == poll_create(F, S, is_owner)
    IN  IF C.panic
        THEN [F |-> C.F, S |-> C.S, res |-> "panic", value |-> "none"]
        ELSE poll_receive(C.F, C.S)

\* Drop for SourceFuture: a source still held is destroyed; then the fields
\* are dropped, the source and the receiver with them.
SourceFuture_drop(F, S) ==
    IF F.source
    THEN [F |-> [F EXCEPT !.source = FALSE, !.create_source = FALSE,
                          !.dropped = TRUE],
          S |-> g_source_unref(g_source_destroy(S))]
    ELSE [F |-> [F EXCEPT !.create_source = FALSE, !.dropped = TRUE],
          S |-> S]

NoFOut == [op |-> "none", f |-> 0, res |-> "Ok", value |-> "none"]

InitFuture ==
    /\ InitIdle
    /\ LateIdle("future")
    /\ futs = [f \in Futures |-> SourceFuture_new]
    /\ sources = [f \in Futures |-> NoSource]
    /\ fout = NoFOut

\* A poll of future f by an executor whose thread owns the context or not.
FuturePoll(f, is_owner) ==
    /\ ~futs[f].dropped
    /\ futs[f].polls < MaxPolls
    /\ \E R \in {poll(futs[f], sources[f], is_owner)} :
        /\ futs' = [futs EXCEPT ![f] = R.F]
        /\ sources' = [sources EXCEPT ![f] = R.S]
        /\ fout' = [op |-> "poll", f |-> f, res |-> R.res, value |-> R.value]
    /\ UNCHANGED futureRest

\* The loop dispatches the source of future f: its callback sends v and
\* returns Continue(false), and the loop destroys the source.
SourceDispatch(f, v) ==
    /\ sources[f].state = "attached"
    /\ sources[f].chan = "open"
    /\ sources' = [sources EXCEPT ![f] =
                      g_source_destroy([@ EXCEPT !.chan = "sent",
                                                 !.value = v])]
    /\ fout' = [NoFOut EXCEPT !.op = "dispatch", !.f = f, !.value = v]
    /\ UNCHANGED <<futs, futureRest>>

\* drop(future f)
FutureDrop(f) ==
    /\ ~futs[f].dropped
    /\ \E R \in {SourceFuture_drop(futs[f], sources[f])} :
        /\ futs' = [futs EXCEPT ![f] = R.F]
        /\ sources' = [sources EXCEPT ![f] = R.S]
    /\ fout' = [NoFOut EXCEPT !.op = "drop", !.f = f]
    /\ UNCHANGED futureRest

NextFuture ==
    \/ \E f \in Futures, is_owner \in BOOLEAN : FuturePoll(f, is_owner)
    \/ \E f \in Futures, v \in FutureValues : SourceDispatch(f, v)
    \/ \E f \in Futures : FutureDrop(f)

SpecFuture == InitFuture /\ [][NextFuture]_vars

\* -------------------------------------------------- claims on SpecFuture
\* What holds of every future at every time: create_source was called, and
\* its source attached, once if a poll has returned and never before; a
\* future dropped after a poll returned and before it was Ready had its
\* source destroyed once, and no source is destroyed twice.
C30_Always ==
    \A f \in Futures :
        /\ sources[f].created = sources[f].attached
        /\ futs[f].polls = 0 => sources[f].created = 0
        /\ futs[f].polls > 0 => sources[f].created = 1
        /\ sources[f].destroyed <= 1
        /\ (futs[f].dropped /\ futs[f].polls > 0 /\ ~futs[f].resolved) =>
            sources[f].destroyed = 1
        /\ (futs[f].dropped /\ futs[f].polls = 0) =>
            sources[f].state = "none"
\* What each poll that returns does: the first one creates the source; it
\* is Pending if the source has not sent, else Ready with the value sent,
\* and then the future holds the source no more.
C30_Step ==
    \A f \in Futures, is_owner \in BOOLEAN :
        (FuturePoll(f, is_owner) /\ fout'.res # "panic") =>
            /\ futs[f].polls = 0 =>
                (sources[f].created = 0 /\ sources'[f].created = 1)
            /\ futs[f].polls > 0 => sources'[f].created = sources[f].created
            /\ sources'[f].chan = "open" => fout'.res = "Pending"
            /\ sources[f].chan = "sent" =>
                /\ fout'.res = "Ready"
                /\ fout'.value = sources[f].value
                /\ futs[f].source /\ ~futs'[f].source
                /\ sources'[f].refs = sources[f].refs - 1

\* C30: a SourceFuture calls create_source exactly once, on the first poll,
\* and attaches the source then; every poll before the source has sent a
\* value returns Pending, the first poll after it returns Ready with that
\* value and gives up the hold on the source; a future dropped after the
\* first poll and before it resolved has its source destroyed exactly once,
\* and one dropped before the first poll never creates a source.
C30_SourceFuture == []C30_Always /\ [][C30_Step]_vars

\* One future was Ready with "b" on its second poll; the other was dropped
\* after a Pending poll, and its source, which never sent, is destroyed.
C30_Witness ==
    /\ futs[1].resolved /\ futs[1].polls = 2 /\ ~futs[1].source
    /\ sources[1].value = "b" /\ sources[1].created = 1
    /\ sources[1].refs = 0
    /\ futs[2].dropped /\ futs[2].polls = 1 /\ ~futs[2].resolved
    /\ sources[2].chan = "open" /\ sources[2].destroyed = 1

====
